---- MODULE Spec2Model ----
(***************************************************************************)
(* Artist-DB-Generator: the channel Resolver (youtube_searcher.py), the   *)
(* batch resolve runner (find_all_channels.py), the channel Verifier      *)
(* (verify_channel_matches.py), the ingestion (export_artists_to_db.py)   *)
(* and the review query (verify_false_negatives.py).                       *)
(*                                                                         *)
(* Text is a sequence of one-character strings.  Scores are exact         *)
(* fractions [n, d] (the Python code uses doubles; every comparison the   *)
(* code makes against 0.6, 0.4 and 0.0 agrees with the exact one for the  *)
(* lengths used here).                                                     *)
(***************************************************************************)
EXTENDS Integers, Sequences, FiniteSets, TLC

VARIABLES
    \* one call of the scoring loop of find_or_cache_artist_channel
    q_pc, q_artist, q_output, q_best,
    \* one call of search_channel_for_song after its subprocess returned
    s_pc, s_song, s_output, s_ret,
    \* the artists table: youtube_channel of every row (<<>> is NULL or '')
    db,
    \* find_all_channels.main: position, snapshot, submitted prefix, work
    \* queue of the executor, futures already handled, printed report,
    \* KeyboardInterrupt delivered
    m_pc, pending_artists, nsub, queue, handled, report, interrupted,
    \* every caller of find_or_cache_artist_channel: position, artist,
    \* best_url, returned value, the yt-dlp subprocess it waits for
    c_pc, c_key, c_url, c_ret, c_proc,
    \* the artists table: auto_verified of every row
    auto_verified,
    \* verify_channel_matches.verify_all_channels: position, exception on its
    \* way out, snapshot rows, submitted prefix, work queue, futures handled,
    \* rows written to the CSV file
    v_pc, v_exc, v_rows, v_nsub, v_queue, v_handled, csv,
    \* every unit verify_artist: position, value of found, its subprocess
    u_pc, u_found, u_proc,
    \* the artists table: song_name and verified of every row
    t_song_name, t_verified,
    \* what the external search answers to the query for every artist; the
    \* number of times find_all_channels.main was started
    web, runs,
    \* one text put through both normalizers, once and twice
    n_pc, n_text, n_out,
    \* two canonical forms and their similarity in both directions
    g_pc, g_a, g_b, g_out,
    \* export_artists_from_playlists: position, the rows of the artists table,
    \* the all_artists dict, the names still to upsert, tracks read so far
    i_pc, i_table, all_artists, i_left, i_ntracks,
    \* get_next_unverified: position, the rows of the artists table, the
    \* youtube_channel column of the CSV file, the returned record
    r_pc, r_table, r_csv, r_ret,
    \* schema of the artists table: whether it exists, its columns, its rows,
    \* the migrations that completed, the columns at start, the last statement's outcome
    d_exists, d_columns, d_rows, d_ran, d_start, d_last,
    \* cache_youtube_album_search: each worker's position, artist, channel_url,
    \* listing searches made and outcome; the stored channels; the in-memory cache
    a_pc, a_artist, a_url, a_calls, a_ret, a_channel, YOUTUBE_CACHE,
    \* hand-over of the auxiliary list: position, the CSV files by name,
    \* the channels the verification run exported, the priority index review gives them
    h_pc, h_files, h_exported, h_index,
    \* the review tool: position, the artists table, the CSV rows, the last
    \* /verify request, the record last returned, the ids decided so far
    l_pc, l_table, l_csv, l_req, l_next, l_decided

(***************************************************************************)
(* Bounds of the model.                                                    *)
(***************************************************************************)
\* longest search output, as the sum of its candidates' name lengths
MaxTotalLen == 5
\* most candidates in one search output
MaxCands == 2
\* rows of the artists table
NumArtists == 2
\* calls of the Resolver by callers other than the batch workers
NumExt == 1

\* runs of find_all_channels.main in one behaviour
MaxRuns == 2

\* longest text given to the normalizers
MaxTextLen == 6

\* longest canonical form given to the similarity alone
MaxSimLen == 5

\* (artist, track) pairs read from the playlists in one ingestion
MaxTracks == 3

\* data rows of the CSV file read by the review tool
MaxCsvRows == 2

(***************************************************************************)
(* Characters.                                                             *)
(***************************************************************************)
UpperChars == <<"A", "B", "C", "D", "E", "F", "G", "H", "I", "J", "K", "L", "M",
                "N", "O", "P", "Q", "R", "S", "T", "U", "V", "W", "X", "Y", "Z">>

LowerChars == <<"a", "b", "c", "d", "e", "f", "g", "h", "i", "j", "k", "l", "m",
                "n", "o", "p", "q", "r", "s", "t", "u", "v", "w", "x", "y", "z">>

Letters == {"a", "b", "c", "d", "e", "f", "g", "h", "i", "j", "k", "l", "m",
            "n", "o", "p", "q", "r", "s", "t", "u", "v", "w", "x", "y", "z"}

Digits == {"0", "1", "2", "3", "4", "5", "6", "7", "8", "9"}

\* str.lower() on one character
LowerChar(c) ==
    IF \E i \in 1..Len(UpperChars) : UpperChars[i] = c
    THEN LowerChars[CHOOSE i \in 1..Len(UpperChars) : UpperChars[i] = c]
    ELSE c

Lower(s) == [i \in 1..Len(s) |-> LowerChar(s[i])]

\* the class [a-z0-9]
IsAlnum(c) == c \in Letters \cup Digits

\* the regex class \w on lowercased text
IsWordChar(c) == IsAlnum(c) \/ c = "_"

IsSpace(c) == c = " "

\* a in b, for Python strings
Contains(b, a) ==
    \E i \in 0..(Len(b) - Len(a)) : \A k \in 1..Len(a) : b[i + k] = a[k]

RECURSIVE LStrip(_)
LStrip(s) == IF s # <<>> /\ IsSpace(Head(s)) THEN LStrip(Tail(s)) ELSE s

RECURSIVE RStrip(_)
RStrip(s) ==
    IF s # <<>> /\ IsSpace(s[Len(s)]) THEN RStrip(SubSeq(s, 1, Len(s) - 1)) ELSE s

\* str.strip()
Strip(s) == RStrip(LStrip(s))

(***************************************************************************)
(* youtube_searcher.normalize_name                                         *)
(***************************************************************************)
NameNoise == { <<"v", "e", "v", "o">>,
               <<"t", "o", "p", "i", "c">>,
               <<"o", "f", "f", "i", "c", "i", "a", "l">>,
               <<"m", "u", "s", "i", "c">>,
               <<"c", "h", "a", "n", "n", "e", "l">> }

\* re.sub(r"\b(tok1|tok2|...)\b", "", s): a match is a whole maximal run of
\* word characters that equals one of the tokens; it is deleted, everything
\* else (the separators included) is kept.
RECURSIVE DropWords(_, _, _, _)
DropWords(s, i, word, noise) ==
    LET kept == IF word \in noise THEN <<>> ELSE word
    IN  IF i > Len(s) THEN kept
        ELSE IF IsWordChar(s[i])
             THEN DropWords(s, i + 1, Append(word, s[i]), noise)
             ELSE kept \o <<s[i]>> \o DropWords(s, i + 1, <<>>, noise)

normalize_name(s) ==
    LET s1 == Lower(s)
        s2 == DropWords(s1, 1, <<>>, NameNoise)
        s3 == SelectSeq(s2, IsAlnum)
    IN  Strip(s3)

(***************************************************************************)
(* difflib.SequenceMatcher(None, a, b).ratio()                             *)
(***************************************************************************)
\* length of the common run of a and b that starts at a[i], b[j] and stays
\* inside a[..ahi], b[..bhi]
RECURSIVE RunLen(_, _, _, _, _, _)
RunLen(a, b, i, j, ahi, bhi) ==
    IF i > ahi \/ j > bhi THEN 0
    ELSE IF a[i] # b[j] THEN 0
    ELSE 1 + RunLen(a, b, i + 1, j + 1, ahi, bhi)

\* the longest matching block in a[alo..ahi], b[blo..bhi]; of all maximal
\* blocks the one starting earliest in a, and of those the one starting
\* earliest in b
find_longest_match(a, b, alo, ahi, blo, bhi) ==
    LET pairs == (alo..ahi) \X (blo..bhi)
        len == [p \in pairs |-> RunLen(a, b, p[1], p[2], ahi, bhi)]
        bestsize == CHOOSE k \in 0..Len(a) :
                        /\ \A p \in pairs : len[p] <= k
                        /\ k > 0 => \E p \in pairs : len[p] = k
        maxed == {p \in pairs : len[p] = bestsize}
        besti == CHOOSE i \in alo..ahi :
                     /\ \E p \in maxed : p[1] = i
                     /\ \A p \in maxed : i <= p[1]
        bestj == CHOOSE j \in blo..bhi :
                     /\ <<besti, j>> \in maxed
                     /\ \A p \in maxed : p[1] = besti => j <= p[2]
    IN  IF pairs = {} \/ bestsize = 0 THEN [i |-> alo, j |-> blo, size |-> 0]
        ELSE [i |-> besti, j |-> bestj, size |-> bestsize]

\* sum of the sizes of get_matching_blocks()
RECURSIVE MatchCount(_, _, _, _, _, _)
MatchCount(a, b, alo, ahi, blo, bhi) ==
    LET m == find_longest_match(a, b, alo, ahi, blo, bhi)
    IN  IF m.size = 0 THEN 0
        ELSE m.size
             + MatchCount(a, b, alo, m.i - 1, blo, m.j - 1)
             + MatchCount(a, b, m.i + m.size, ahi, m.j + m.size, bhi)

\* ratio() as the fraction 2*matches / (len(a) + len(b)), 1.0 for two
\* empty strings
Ratio(a, b) ==
    IF Len(a) + Len(b) = 0 THEN [n |-> 1, d |-> 1]
    ELSE [n |-> 2 * MatchCount(a, b, 1, Len(a), 1, Len(b)), d |-> Len(a) + Len(b)]

(***************************************************************************)
(* Fractions: scores are n/d with d > 0; bonuses are given in hundredths.  *)
(***************************************************************************)
Zero == [n |-> 0, d |-> 1]

\* x + c/100
AddCents(x, c) == [n |-> x.n * 100 + c * x.d, d |-> x.d * 100]

\* the comparison with >= in place of >: a later candidate that ties wins
FracLess_or_equal(x, y) == x.n * y.d <= y.n * x.d

\* x < y
FracLess(x, y) == x.n * y.d < y.n * x.d

\* x >= c/100
AtLeastCents(x, c) == x.n * 100 >= c * x.d

(***************************************************************************)
(* Program constants.                                                      *)
(***************************************************************************)
\* find_all_channels.py and verify_channel_matches.py: width of the pool
MAX_WORKERS == 8

(***************************************************************************)
(* URLs are sequences of tokens: scheme, host, path marker, identifier.    *)
(***************************************************************************)
Scheme == "https://"

Host == "www.youtube.com"

\* url.startswith("https://")
StartsWithHttps(url) == url # <<>> /\ url[1] = Scheme

\* "youtube.com" in url
HasYoutube(url) == \E i \in 1..Len(url) : url[i] = Host

\* "/@" in url.lower()
HasHandle(url) == \E i \in 1..Len(url) : url[i] = "/@"

\* "officialartistchannel" in url.lower()
HasOfficialArtistChannel(url) ==
    \E i \in 1..Len(url) : url[i] = "officialartistchannel"

Official == <<"o", "f", "f", "i", "c", "i", "a", "l">>

(***************************************************************************)
(* youtube_searcher.find_or_cache_artist_channel, the scoring loop.  A    *)
(* candidate is the (display_name, channel_url) pair read from one JSON   *)
(* line of the search output.                                              *)
(***************************************************************************)
Abs(x) == IF x < 0 THEN -x ELSE x

\* line 91: the candidate has a name and a youtube.com URL
Usable(c) ==
    c.display_name # <<>> /\ c.channel_url # <<>> /\ HasYoutube(c.channel_url)

\* variant of LengthMismatch: the filter lets a difference of 4 through
LengthMismatch_wide(artist_norm, display_norm) ==
    Abs(Len(artist_norm) - Len(display_norm)) > 4

\* line 98: the length pre-filter rejects the candidate
LengthMismatch(artist_norm, display_norm) ==
    Abs(Len(artist_norm) - Len(display_norm)) > 3

\* variant of LowSimilarity: a similarity of exactly 0.6 is rejected
LowSimilarity_strict(similarity) == ~ (similarity.n * 100 > 60 * similarity.d)

\* line 100: the similarity filter rejects the candidate
LowSimilarity(similarity) == ~ AtLeastCents(similarity, 60)

\* variant of Bonus: the containment bonus is added after the equality bonus
Bonus_both(artist_norm, display_norm, c) ==
      (IF artist_norm = display_norm THEN 30 ELSE 0)
    + (IF Contains(display_norm, artist_norm) \/ Contains(artist_norm, display_norm)
       THEN 20 ELSE 0)
    + (IF Contains(Lower(c.display_name), Official) THEN 10 ELSE 0)
    + (IF HasHandle(c.channel_url) THEN 15 ELSE 0)
    + (IF HasOfficialArtistChannel(c.channel_url) THEN 25 ELSE 0)

\* lines 104-117: the bonuses, in hundredths
Bonus(artist_norm, display_norm, c) ==
      (IF artist_norm = display_norm THEN 30
       ELSE IF Contains(display_norm, artist_norm) \/ Contains(artist_norm, display_norm)
            THEN 20 ELSE 0)
    + (IF Contains(Lower(c.display_name), Official) THEN 10 ELSE 0)
    + (IF HasHandle(c.channel_url) THEN 15 ELSE 0)
    + (IF HasOfficialArtistChannel(c.channel_url) THEN 25 ELSE 0)

\* lines 91-101: the candidate reaches the comparison of line 119
Eligible(artist_norm, c) ==
    /\ Usable(c)
    /\ ~ LengthMismatch(artist_norm, normalize_name(c.display_name))
    /\ ~ LowSimilarity(Ratio(artist_norm, normalize_name(c.display_name)))

\* the value of similarity at line 119
Score(artist_norm, c) ==
    LET display_norm == normalize_name(c.display_name)
    IN  AddCents(Ratio(artist_norm, display_norm), Bonus(artist_norm, display_norm, c))

\* lines 78-121: the loop over the output lines, from candidate i on
RECURSIVE ScanCandidates(_, _, _, _)
ScanCandidates(artist_norm, output, i, best) ==
    IF i > Len(output) THEN best
    ELSE LET c == output[i]
             next == IF Eligible(artist_norm, c)
                        /\ FracLess(best.best_similarity, Score(artist_norm, c))
                     THEN [best_url |-> c.channel_url,
                           best_similarity |-> Score(artist_norm, c),
                           index |-> i]
                     ELSE best
         IN  ScanCandidates(artist_norm, output, i + 1, next)

\* lines 58-125: best_url after the loop, made absolute; index is the
\* position of the chosen candidate in the output (0: none)
BestChannel(artist, output) ==
    LET best == ScanCandidates(normalize_name(artist), output, 1,
                               [best_url |-> <<>>, best_similarity |-> Zero, index |-> 0])
    IN  IF best.best_url # <<>> /\ ~ StartsWithHttps(best.best_url)
        THEN [best EXCEPT !.best_url = <<Scheme, Host>> \o best.best_url]
        ELSE best

(***************************************************************************)
(* verify_channel_matches.normalize                                        *)
(***************************************************************************)
TitleNoise == { <<"o", "f", "f", "i", "c", "i", "a", "l">>,
                <<"v", "i", "d", "e", "o">>,
                <<"a", "u", "d", "i", "o">>,
                <<"l", "y", "r", "i", "c">>,
                <<"l", "y", "r", "i", "c", "s">>,
                <<"m", "u", "s", "i", "c">>,
                <<"v", "i", "s", "u", "a", "l", "i", "z", "e", "r">>,
                <<"m", "v">> }

\* re.sub(r"[^a-z0-9]+", " ", s): every maximal run of other characters
\* becomes one space
RECURSIVE CollapseNonAlnum(_, _)
CollapseNonAlnum(s, i) ==
    IF i > Len(s) THEN <<>>
    ELSE IF IsAlnum(s[i]) THEN <<s[i]>> \o CollapseNonAlnum(s, i + 1)
    ELSE IF i > 1 /\ ~ IsAlnum(s[i - 1]) THEN CollapseNonAlnum(s, i + 1)
    ELSE <<" ">> \o CollapseNonAlnum(s, i + 1)

normalize(s) ==
    IF s = <<>> THEN <<>>
    ELSE LET s1 == Lower(s)
             s2 == CollapseNonAlnum(s1, 1)
             s3 == DropWords(s2, 1, <<>>, TitleNoise)
         IN  Strip(s3)

(***************************************************************************)
(* verify_channel_matches.search_channel_for_song, lines 92-116.  The     *)
(* output is a sequence of lines, a line the sequence of its fields as     *)
(* line.split("|") cuts them.                                              *)
(***************************************************************************)
None == <<"None">>

BonusWords == { <<"l", "y", "r", "i", "c">>, <<"a", "u", "d", "i", "o">> }

PenaltyWords == { <<"l", "i", "v", "e">>, <<"r", "e", "m", "i", "x">>,
                  <<"c", "o", "v", "e", "r">>,
                  <<"p", "e", "r", "f", "o", "r", "m", "a", "n", "c", "e">> }

\* line 97
Parts(line) == [k \in 1..Len(line) |-> Strip(line[k])]

\* lines 98-104: the line yields a candidate
HasCandidate(line) == Len(line) >= 3 /\ normalize(Parts(line)[1]) # <<>>

\* lines 106-110: the score of a title
SongScore(song_norm, title_norm) ==
    AddCents(Ratio(song_norm, title_norm),
             (IF \E w \in BonusWords : Contains(title_norm, w) THEN 10 ELSE 0)
             - (IF \E w \in PenaltyWords : Contains(title_norm, w) THEN 10 ELSE 0))

\* variant of Accepted: a best score of exactly 0.4 is rejected
Accepted_strict(best_score) == best_score.n * 100 > 40 * best_score.d

\* line 116: the acceptance test
Accepted(best_score) == AtLeastCents(best_score, 40)

\* lines 96-114: the loop over the output lines, from line i on
RECURSIVE ScanLines(_, _, _, _)
ScanLines(song_norm, out, i, acc) ==
    IF i > Len(out) THEN acc
    ELSE LET parts == Parts(out[i])
             score == SongScore(song_norm, normalize(parts[1]))
             next == IF HasCandidate(out[i]) /\ FracLess(acc.best_score, score)
                     THEN [best_match |-> parts[3], best_score |-> score, index |-> i]
                     ELSE acc
         IN  ScanLines(song_norm, out, i + 1, next)

\* lines 92-116: the value returned for an output of the search
BestSongMatch(song_name, out) ==
    LET acc == ScanLines(normalize(song_name), out, 1,
                         [best_match |-> None, best_score |-> Zero, index |-> 0])
    IN  IF Accepted(acc.best_score) THEN acc ELSE [acc EXCEPT !.best_match = None]

\* verify_artist, line 124: bool(url)
Found(url) == url # None /\ url # <<>>

(***************************************************************************)
(* Inputs of the scoring loop.                                             *)
(***************************************************************************)
U_handle == <<Scheme, Host, "/@", "h1">>

U_channel == <<Scheme, Host, "/channel/", "UC1">>

U_oac == <<Scheme, Host, "/channel/", "officialartistchannel">>

U_other == <<Scheme, "example.com", "/x">>

ChannelUrls == {U_handle, U_channel, U_oac, U_other}

\* a relative URL: a path without scheme and host
U_relative == <<"/@", "h1">>

\* a URL with a host and another scheme than https://
U_http == <<"http://", Host, "/@", "h1">>

NameChars == {"a", "b"}

\* all texts over NameChars of length at most n
RECURSIVE Texts(_)
Texts(n) ==
    IF n = 0 THEN {<<>>}
    ELSE LET shorter == Texts(n - 1)
         IN  shorter \cup {Append(t, c) : t \in {u \in shorter : Len(u) = n - 1},
                                          c \in NameChars}

ShortArtists == { <<"a", "b">>, <<"A", "-", "b">>,
                  <<"a", "a", "a", "a", "a">>,
                  <<"a", "a", "a", "a", "a", "a">>,
                  <<"a", "a", "a", "a", "a", "a", "a">> }

DaftPunk == <<"D", "a", "f", "t", " ", "P", "u", "n", "k">>

\* an artist name whose canonical form is empty
Vevo == <<"V", "E", "V", "O">>

ExampleArtists == { DaftPunk, Vevo }

ExampleNames ==
    { DaftPunk,
      DaftPunk \o <<" ", "F", "a", "n", " ", "P", "a", "g", "e">>,
      DaftPunk \o <<" ", "-", " ", "T", "o", "p", "i", "c">>,
      <<"D", "a", "f", "t", "P", "u", "n", "k", "V", "E", "V", "O">>,
      <<"D", "a", "f", "t", " ", "P", "u", "n", "k", "s">>,
      <<"O", "f", "f", "i", "c", "i", "a", "l">> }

RECURSIVE TotalLen(_)
TotalLen(out) ==
    IF out = <<>> THEN 0 ELSE Len(Head(out).display_name) + TotalLen(Tail(out))

\* the URLs a candidate of the output may carry
UrlsFor(a) ==
    IF a \in ExampleArtists THEN ChannelUrls \cup {U_relative, U_http}
    ELSE ChannelUrls

\* the display names a further candidate of the output may carry
NamesFor(a, out) ==
    IF a \in ExampleArtists THEN ExampleNames
    ELSE Texts(MaxTotalLen - TotalLen(out))

(***************************************************************************)
(* Scoring specification: the loop of find_or_cache_artist_channel applied *)
(* to every bounded search output.                                         *)
(***************************************************************************)
qvars == <<q_pc, q_artist, q_output, q_best>>

svars == <<s_pc, s_song, s_output, s_ret>>

bvars == <<db, m_pc, pending_artists, nsub, queue, handled, report, interrupted,
           c_pc, c_key, c_url, c_ret, c_proc>>

vvars == <<auto_verified, v_pc, v_exc, v_rows, v_nsub, v_queue, v_handled, csv,
           u_pc, u_found, u_proc>>

tvars == <<t_song_name, t_verified>>

evars == <<web, runs>>

nvars == <<n_pc, n_text, n_out>>

\* the groups of the function-level specifications
gvars == <<g_pc, g_a, g_b, g_out>>

ivars == <<i_pc, i_table, all_artists, i_left, i_ntracks>>

rvars == <<r_pc, r_table, r_csv, r_ret>>

dvars == <<d_exists, d_columns, d_rows, d_ran, d_start, d_last>>

avars == <<a_pc, a_artist, a_url, a_calls, a_ret, a_channel, YOUTUBE_CACHE>>

hvars == <<h_pc, h_files, h_exported, h_index>>

lvars == <<l_pc, l_table, l_csv, l_req, l_next, l_decided>>

xvars == <<nvars, gvars, ivars, rvars, dvars, avars, hvars, lvars>>

vars == <<qvars, svars, bvars, vvars, tvars, evars, xvars>>

NoBest == [best_url |-> <<>>, best_similarity |-> Zero, index |-> 0]

QIdle == q_pc = "idle" /\ q_artist = <<>> /\ q_output = <<>> /\ q_best = NoBest

NoMatch == [best_match |-> None, best_score |-> Zero, index |-> 0]

SIdle == s_pc = "idle" /\ s_song = <<>> /\ s_output = <<>> /\ s_ret = NoMatch

Artists == 1..NumArtists

\* the batch unit of artist k is caller k; the other callers follow
ExtCallers == (NumArtists + 1)..(NumArtists + NumExt)

Callers == Artists \cup ExtCallers

NoProc == [status |-> "none", hung |-> FALSE, timeout |-> 0]

BRunnerIdle ==
    /\ m_pc = "idle"
    /\ pending_artists = <<>>
    /\ nsub = 0
    /\ queue = <<>>
    /\ handled = {}
    /\ report = [k \in Artists |-> "none"]
    /\ interrupted = FALSE
    /\ c_pc = [c \in Callers |-> "idle"]
    /\ c_key = [c \in Callers |-> 0]
    /\ c_url = [c \in Callers |-> <<>>]
    /\ c_ret = [c \in Callers |-> <<>>]
    /\ c_proc = [c \in Callers |-> NoProc]

BIdle == db = [k \in Artists |-> <<>>] /\ BRunnerIdle

VRunnerIdle ==
    /\ v_pc = "idle"
    /\ v_exc = FALSE
    /\ v_rows = <<>>
    /\ v_nsub = 0
    /\ v_queue = <<>>
    /\ v_handled = {}
    /\ csv = <<>>
    /\ u_pc = [k \in Artists |-> "idle"]
    /\ u_found = [k \in Artists |-> FALSE]
    /\ u_proc = [k \in Artists |-> NoProc]

\* the column added by ensure_auto_verified_column: DEFAULT 0
VIdle == auto_verified = [k \in Artists |-> 0] /\ VRunnerIdle

\* rows as the resolver sees them: no song, verified DEFAULT 0
TIdle ==
    t_song_name = [k \in Artists |-> <<>>] /\ t_verified = [k \in Artists |-> 0]

\* the search is free to answer anything; main has not been started
Unconstrained == [kind |-> "any", out |-> <<>>]

EIdle == web = [k \in Artists |-> Unconstrained] /\ runs = 0

NoNorm == [name |-> <<>>, name2 |-> <<>>, title |-> <<>>, title2 |-> <<>>]

NIdle == n_pc = "idle" /\ n_text = <<>> /\ n_out = NoNorm

NoSim == [ab |-> Zero, ba |-> Zero]

GIdle == g_pc = "idle" /\ g_a = <<>> /\ g_b = <<>> /\ g_out = NoSim

\* artist_name not in all_artists
NotSeen == <<"absent">>

IIdle ==
    /\ i_pc = "idle"
    /\ i_table = <<>>
    /\ all_artists = [k \in Artists |-> NotSeen]
    /\ i_left = {}
    /\ i_ntracks = 0

\* get_next_unverified returns None: no row (names start at 1)
NoRow == [csv_index |-> 0, name |-> 0]

RIdle == r_pc = "idle" /\ r_table = <<>> /\ r_csv = <<>> /\ r_ret = NoRow

DIdle ==
    /\ d_exists = FALSE
    /\ d_columns = {}
    /\ d_rows = <<>>
    /\ d_ran = {}
    /\ d_start = {}
    /\ d_last = "ok"

AIdle ==
    /\ a_pc = <<>>
    /\ a_artist = <<>>
    /\ a_url = <<>>
    /\ a_calls = <<>>
    /\ a_ret = <<>>
    /\ a_channel = <<>>
    /\ YOUTUBE_CACHE = <<>>

HIdle ==
    /\ h_pc = "idle"
    /\ h_files = <<>>
    /\ h_exported = {}
    /\ h_index = <<>>

LIdle ==
    /\ l_pc = "idle"
    /\ l_table = <<>>
    /\ l_csv = <<>>
    /\ l_req = [id |-> 0, verified |-> 0]
    /\ l_next = NoRow
    /\ l_decided = {}

XIdle == NIdle /\ GIdle /\ IIdle /\ RIdle /\ DIdle /\ AIdle /\ HIdle /\ LIdle

QOthers == <<svars, bvars, vvars, tvars, evars, xvars>>

SOthers == <<qvars, bvars, vvars, tvars, evars, xvars>>

BOthers == <<qvars, svars, vvars, tvars, evars, xvars>>

MainOthers == <<qvars, svars, vvars, tvars, web, xvars>>

VOthers == <<qvars, svars, tvars, evars, xvars>>

\* the groups of the program-level specifications
PIdle == QIdle /\ SIdle /\ BIdle /\ VIdle /\ TIdle /\ EIdle

NOthers == <<qvars, svars, bvars, vvars, tvars, evars, gvars, ivars, rvars, dvars, avars, hvars, lvars>>

GOthers == <<qvars, svars, bvars, vvars, tvars, evars, nvars, ivars, rvars, dvars, avars, hvars, lvars>>

IOthers == <<qvars, svars, bvars, vvars, tvars, evars, nvars, gvars, rvars, dvars, avars, hvars, lvars>>

ROthers == <<qvars, svars, bvars, vvars, tvars, evars, nvars, gvars, ivars, dvars, avars, hvars, lvars>>

DOthers == <<qvars, svars, bvars, vvars, tvars, evars, nvars, gvars, ivars, rvars, avars, hvars, lvars>>

AOthers == <<qvars, svars, bvars, vvars, tvars, evars, nvars, gvars, ivars, rvars, dvars, hvars, lvars>>

HOthers == <<qvars, svars, bvars, vvars, tvars, evars, nvars, gvars, ivars, rvars, dvars, avars, lvars>>

LOthers == <<qvars, svars, bvars, vvars, tvars, evars, nvars, gvars, ivars, rvars, dvars, avars, hvars>>

QInit ==
    /\ q_pc = "input"
    /\ q_artist \in ShortArtists \cup ExampleArtists
    /\ q_output = <<>>
    /\ q_best = NoBest
    /\ SIdle
    /\ BIdle
    /\ VIdle
    /\ TIdle
    /\ EIdle
    /\ XIdle

\* the search prints one more JSON line
QAddCandidate ==
    /\ q_pc = "input"
    /\ Len(q_output) < MaxCands
    /\ \E name \in NamesFor(q_artist, q_output), url \in UrlsFor(q_artist) :
           q_output' = Append(q_output, [display_name |-> name, channel_url |-> url])
    /\ UNCHANGED <<q_pc, q_artist, q_best>>
    /\ UNCHANGED QOthers

\* lines 58-125 on the output
QScore ==
    /\ q_pc = "input"
    /\ q_best' = BestChannel(q_artist, q_output)
    /\ q_pc' = "scored"
    /\ UNCHANGED <<q_artist, q_output>>
    /\ UNCHANGED QOthers

QNext == QAddCandidate \/ QScore

SpecScore == QInit /\ [][QNext]_vars

(***************************************************************************)
(* Song-matching specification: lines 92-116 of search_channel_for_song    *)
(* applied to every bounded output of the within-channel search.           *)
(***************************************************************************)
V_1 == <<Scheme, Host, "/watch?v=", "v1">>

V_2 == <<Scheme, Host, "/watch?v=", "v2">>

VideoUrls == {V_1, V_2}

Uploader == <<"u">>

ShortSongs == { <<"a", "b">>, <<"A", "b">>, <<"a", "a", "b">>, <<"b", "b", "b", "b">> }

GetLucky == <<"G", "e", "t", " ", "L", "u", "c", "k", "y">>

ExampleSongs ==
    { GetLucky,
      <<"l", "i", "a", "b">>,
      <<"a", "u", "d", "x", "x", "x", "x", "x", "x", "x", "x", "x", "x", "x">> }

ExampleTitles ==
    { GetLucky,
      <<"D", "a", "f", "t", " ", "P", "u", "n", "k", " ", "-", " ">> \o GetLucky
          \o <<" ", "(", "O", "f", "f", "i", "c", "i", "a", "l", " ",
               "A", "u", "d", "i", "o", ")">>,
      GetLucky \o <<" ", "(", "L", "i", "v", "e", " ", "i", "n", " ",
                    "P", "a", "r", "i", "s", ")">>,
      GetLucky \o <<" ", "L", "y", "r", "i", "c", "a", "l">>,
      <<"l", "i", "v", "e">>,
      <<"A", "u", "d", "i", "o", "s">>,
      <<"O", "f", "f", "i", "c", "i", "a", "l", " ", "V", "i", "d", "e", "o">> }

RECURSIVE TitleLen(_)
TitleLen(out) == IF out = <<>> THEN 0 ELSE Len(Head(out)[1]) + TitleLen(Tail(out))

\* the titles a further line of the output may carry
TitlesFor(song, out) ==
    IF song \in ExampleSongs THEN ExampleTitles
    ELSE Texts(MaxTotalLen - TitleLen(out))

\* lines that line.split("|") does not cut into three fields: the uploader
\* is missing, or the title itself holds a "|"
OddLines ==
    {<<GetLucky, url>> : url \in VideoUrls}
    \cup {<<GetLucky, <<"x">>, Uploader, url>> : url \in VideoUrls}

\* the lines the search may print next: "title | uploader | url", and for
\* the example songs also lines with two and with four fields
LinesFor(song, out) ==
    {<<title, Uploader, url>> : title \in TitlesFor(song, out), url \in VideoUrls}
    \cup (IF song \in ExampleSongs THEN OddLines ELSE {})

SInit ==
    /\ s_pc = "input"
    /\ s_song \in ShortSongs \cup ExampleSongs
    /\ s_output = <<>>
    /\ s_ret = NoMatch
    /\ QIdle
    /\ BIdle
    /\ VIdle
    /\ TIdle
    /\ EIdle
    /\ XIdle

\* the search prints one more "title | uploader | url" line
SAddLine ==
    /\ s_pc = "input"
    /\ Len(s_output) < MaxCands
    /\ \E line \in LinesFor(s_song, s_output) :
           s_output' = Append(s_output, line)
    /\ UNCHANGED <<s_pc, s_song, s_ret>>
    /\ UNCHANGED SOthers

\* lines 92-116 on the output
SScore ==
    /\ s_pc = "input"
    /\ s_ret' = BestSongMatch(s_song, s_output)
    /\ s_pc' = "scored"
    /\ UNCHANGED <<s_song, s_output>>
    /\ UNCHANGED SOthers

SNext == SAddLine \/ SScore

SpecSong == SInit /\ [][SNext]_vars

(***************************************************************************)
(* Candidate selection: either scoring loop applied to its bounded outputs *)
(***************************************************************************)
SelectInit == QInit \/ SInit

SelectNext == QAddCandidate \/ QScore \/ SAddLine \/ SScore

SpecSelect == SelectInit /\ [][SelectNext]_vars

(***************************************************************************)
(* The Resolution Cache (youtube_searcher.py, find_all_channels.py).       *)
(***************************************************************************)
\* variant of get_artist_channel: the cached value is never seen
get_artist_channel_miss(d, k) == <<>>

\* get_artist_channel: the youtube_channel of the row, None (<<>>) when it is
\* NULL or empty
get_artist_channel(d, k) == d[k]

\* set_artist_channel: UPDATE artists SET youtube_channel = url WHERE name = k
set_artist_channel(d, k, url) == [d EXCEPT ![k] = url]

\* update_channel_in_db: the same UPDATE, issued by the runner
update_channel_in_db(d, k, url) == [d EXCEPT ![k] = url]

\* get_pending_artists: the names whose youtube_channel is NULL or '', in
\* row order
RECURSIVE PendingFrom(_, _)
PendingFrom(d, k) ==
    IF k > NumArtists THEN <<>>
    ELSE (IF d[k] = <<>> THEN <<k>> ELSE <<>>) \o PendingFrom(d, k + 1)

\* the query returns the first pending row only (LIMIT 1)
get_pending_artists_first(d) ==
    IF PendingFrom(d, 1) = <<>> THEN <<>> ELSE <<Head(PendingFrom(d, 1))>>

get_pending_artists(d) == PendingFrom(d, 1)

(***************************************************************************)
(* What the global search can print for an artist.                         *)
(***************************************************************************)
\* the name of artist k: k letters a, then b
RECURSIVE Repeat(_, _)
Repeat(ch, n) == IF n = 0 THEN <<>> ELSE <<ch>> \o Repeat(ch, n - 1)

ArtistName(k) == Repeat("a", k) \o <<"b">>

HandleUrl(k) == <<Scheme, Host, "/@", ToString(k)>>

ChannelIdUrl(k) == <<Scheme, Host, "/channel/", ToString(k)>>

Stranger == <<"z", "z", "z", "z", "z", "z", "z", "z">>

\* outputs of "ytsearch20:<artist> official channel": the artist's channel
\* under a handle URL, under a channel-id URL, or only an unrelated channel
SearchOutputs(k) ==
    { << [display_name |-> ArtistName(k), channel_url |-> HandleUrl(k)] >>,
      << [display_name |-> ArtistName(k), channel_url |-> ChannelIdUrl(k)] >>,
      << [display_name |-> Stranger, channel_url |-> HandleUrl(k)] >> }

\* the answers the search may give to the query for artist k
Answers(k) ==
    IF web[k].kind = "any" THEN SearchOutputs(k)
    ELSE IF web[k].kind = "exit0" THEN {web[k].out}
    ELSE {}

\* the search for artist k may end this way (exit0, nonzero, oserror)
MayEnd(k, how) == web[k].kind \in {"any", how}

(***************************************************************************)
(* find_or_cache_artist_channel, step by step, for caller c.               *)
(***************************************************************************)
\* the subprocess of line 73: check_output is given no timeout
ResolverProc(h) == [status |-> "running", hung |-> h, timeout |-> 0]

\* the subprocess has ended: exit status 0, non-zero, or it never started
Ended(proc, how) == [proc EXCEPT !.status = how]

\* lines 54-73: the cache lookup; a hit returns the cached URL, a miss starts
\* the yt-dlp search, which may never answer
CallBegin(c, k) ==
    LET cached == get_artist_channel(db, k)
    IN  /\ c_key' = [c_key EXCEPT ![c] = k]
        /\ c_url' = [c_url EXCEPT ![c] = <<>>]
        /\ IF cached # <<>>
           THEN /\ c_pc' = [c_pc EXCEPT ![c] = "returned"]
                /\ c_ret' = [c_ret EXCEPT ![c] = cached]
                /\ c_proc' = [c_proc EXCEPT ![c] = NoProc]
           ELSE /\ c_pc' = [c_pc EXCEPT ![c] = "wait"]
                /\ c_ret' = [c_ret EXCEPT ![c] = <<>>]
                /\ \E h \in BOOLEAN : c_proc' = [c_proc EXCEPT ![c] = ResolverProc(h)]

\* a worker thread of the pool takes the next work item: process_artist
WorkerStart(k) ==
    /\ queue # <<>>
    /\ Head(queue) = k
    /\ Cardinality({a \in Artists : c_pc[a] \in {"wait", "persist"}}) < MAX_WORKERS
    /\ queue' = Tail(queue)
    /\ CallBegin(k, k)
    /\ UNCHANGED <<db, m_pc, pending_artists, nsub, handled, report, interrupted>>
    /\ UNCHANGED BOthers

\* another thread or process resolves an artist (cache_youtube_album_search,
\* lines 152-154)
ExtCall(c, k) ==
    /\ c \in ExtCallers
    /\ c_pc[c] = "idle"
    /\ CallBegin(c, k)
    /\ UNCHANGED <<db, m_pc, pending_artists, nsub, queue, handled, report,
                   interrupted>>
    /\ UNCHANGED BOthers

\* lines 73-133: the search answers; the output is scored; without an
\* accepted candidate the call returns ""
SearchReturn(c) ==
    /\ c_pc[c] = "wait"
    /\ ~ c_proc[c].hung
    /\ \E out \in Answers(c_key[c]) :
           LET best_url == BestChannel(ArtistName(c_key[c]), out).best_url
           IN  /\ c_url' = [c_url EXCEPT ![c] = best_url]
               /\ c_pc' = [c_pc EXCEPT ![c] = IF best_url # <<>> THEN "persist"
                                             ELSE "returned"]
    /\ c_proc' = [c_proc EXCEPT ![c] = Ended(c_proc[c], "exit0")]
    /\ UNCHANGED <<db, m_pc, pending_artists, nsub, queue, handled, report,
                   interrupted, c_key, c_ret>>
    /\ UNCHANGED BOthers

\* variant of SearchFailed: the failure is stored in the cache
SearchFailed_sticky(c) ==
    /\ c_pc[c] = "wait"
    /\ ~ c_proc[c].hung
    /\ MayEnd(c_key[c], "nonzero")
    /\ c_pc' = [c_pc EXCEPT ![c] = "returned"]
    /\ c_proc' = [c_proc EXCEPT ![c] = Ended(c_proc[c], "nonzero")]
    /\ db' = set_artist_channel(db, c_key[c], <<"failed">>)
    /\ UNCHANGED <<m_pc, pending_artists, nsub, queue, handled, report,
                   interrupted, c_key, c_url, c_ret>>
    /\ UNCHANGED BOthers

\* lines 74-76: yt-dlp exits non-zero; CalledProcessError is caught and the
\* call returns ""
SearchFailed(c) ==
    /\ c_pc[c] = "wait"
    /\ ~ c_proc[c].hung
    /\ MayEnd(c_key[c], "nonzero")
    /\ c_pc' = [c_pc EXCEPT ![c] = "returned"]
    /\ c_proc' = [c_proc EXCEPT ![c] = Ended(c_proc[c], "nonzero")]
    /\ UNCHANGED <<db, m_pc, pending_artists, nsub, queue, handled, report,
                   interrupted, c_key, c_url, c_ret>>
    /\ UNCHANGED BOthers

\* line 73: check_output raises something else (OSError: yt-dlp cannot be
\* started); nothing in find_or_cache_artist_channel catches it
SearchCrashed(c) ==
    /\ c_pc[c] = "wait"
    /\ ~ c_proc[c].hung
    /\ MayEnd(c_key[c], "oserror")
    /\ c_pc' = [c_pc EXCEPT ![c] = "raised"]
    /\ c_proc' = [c_proc EXCEPT ![c] = Ended(c_proc[c], "oserror")]
    /\ UNCHANGED <<db, m_pc, pending_artists, nsub, queue, handled, report,
                   interrupted, c_key, c_url, c_ret>>
    /\ UNCHANGED BOthers

\* lines 127-130: the accepted URL is written to the cache and returned
Persist(c) ==
    /\ c_pc[c] = "persist"
    /\ db' = set_artist_channel(db, c_key[c], c_url[c])
    /\ c_pc' = [c_pc EXCEPT ![c] = "returned"]
    /\ c_ret' = [c_ret EXCEPT ![c] = c_url[c]]
    /\ UNCHANGED <<m_pc, pending_artists, nsub, queue, handled, report,
                   interrupted, c_key, c_url, c_proc>>
    /\ UNCHANGED BOthers

\* line 128: the UPDATE raises (sqlite3.OperationalError, database is locked)
PersistFails(c) ==
    /\ c_pc[c] = "persist"
    /\ c_pc' = [c_pc EXCEPT ![c] = "raised"]
    /\ UNCHANGED <<db, m_pc, pending_artists, nsub, queue, handled, report,
                   interrupted, c_key, c_url, c_ret, c_proc>>
    /\ UNCHANGED BOthers

(***************************************************************************)
(* find_all_channels.main                                                  *)
(***************************************************************************)
\* the artists submitted to the executor so far
Submitted == {pending_artists[i] : i \in 1..nsub}

InQueue(k) == \E i \in 1..Len(queue) : queue[i] = k

\* the future of artist k is done
Finished(k) == k \in Submitted /\ c_pc[k] \in {"returned", "raised"}

\* the unit of artist k is executing
Executing(k) == c_pc[k] \in {"wait", "persist"}

\* lines 36-46: the snapshot of the pending artists; a fresh executor
MainStart ==
    /\ m_pc \in {"idle", "done"}
    /\ runs < MaxRuns
    /\ runs' = runs + 1
    /\ pending_artists' = get_pending_artists(db)
    /\ m_pc' = IF pending_artists' = <<>> THEN "done" ELSE "submit"
    /\ nsub' = 0
    /\ queue' = <<>>
    /\ handled' = {}
    /\ report' = [k \in Artists |-> "none"]
    /\ interrupted' = FALSE
    /\ c_pc' = [c \in Callers |-> IF c \in Artists THEN "idle" ELSE c_pc[c]]
    /\ c_ret' = [c \in Callers |-> IF c \in Artists THEN <<>> ELSE c_ret[c]]
    /\ c_url' = [c \in Callers |-> IF c \in Artists THEN <<>> ELSE c_url[c]]
    /\ c_key' = [c \in Callers |-> IF c \in Artists THEN 0 ELSE c_key[c]]
    /\ UNCHANGED <<db, c_proc>>
    /\ UNCHANGED MainOthers

\* line 49: executor.submit(process_artist, artist) for the next artist of
\* the snapshot
Submit ==
    /\ m_pc = "submit"
    /\ nsub < Len(pending_artists)
    /\ queue' = Append(queue, pending_artists[nsub + 1])
    /\ nsub' = nsub + 1
    /\ m_pc' = IF nsub' = Len(pending_artists) THEN "collect" ELSE "submit"
    /\ UNCHANGED <<db, pending_artists, handled, report, interrupted, c_pc, c_key, c_url, c_ret, c_proc>>
    /\ UNCHANGED BOthers

AfterHandling(k) ==
    /\ handled' = handled \cup {k}
    /\ m_pc' = IF handled' = Submitted THEN "join" ELSE "collect"

\* variant of Collect: the result is written whatever it is
Collect_unguarded(k) ==
    /\ m_pc = "collect"
    /\ Finished(k)
    /\ k \notin handled
    /\ IF c_pc[k] = "raised"
       THEN /\ report' = [report EXCEPT ![k] = "failed"]
            /\ db' = db
       ELSE /\ db' = update_channel_in_db(db, k, c_ret[k])
            /\ report' = [report EXCEPT ![k] = IF c_ret[k] # <<>> THEN "found"
                                                ELSE "notfound"]
    /\ AfterHandling(k)
    /\ UNCHANGED <<pending_artists, nsub, queue, interrupted, c_pc, c_key, c_url, c_ret, c_proc>>
    /\ UNCHANGED BOthers

\* lines 51-62: as_completed yields the finished future of artist k; a URL is
\* written to the table, an exception of the unit is reported
Collect(k) ==
    /\ m_pc = "collect"
    /\ Finished(k)
    /\ k \notin handled
    /\ IF c_pc[k] = "raised"
       THEN /\ report' = [report EXCEPT ![k] = "failed"]
            /\ db' = db
       ELSE IF c_ret[k] # <<>>
       THEN /\ db' = update_channel_in_db(db, k, c_ret[k])
            /\ report' = [report EXCEPT ![k] = "found"]
       ELSE /\ report' = [report EXCEPT ![k] = "notfound"]
            /\ db' = db
    /\ AfterHandling(k)
    /\ UNCHANGED <<pending_artists, nsub, queue, interrupted, c_pc, c_key, c_url, c_ret, c_proc>>
    /\ UNCHANGED BOthers

\* lines 56, 61-62: update_channel_in_db raises; the exception is caught and
\* the artist reported as failed
CollectWriteFails(k) ==
    /\ m_pc = "collect"
    /\ Finished(k)
    /\ k \notin handled
    /\ c_pc[k] = "returned"
    /\ c_ret[k] # <<>>
    /\ report' = [report EXCEPT ![k] = "failed"]
    /\ AfterHandling(k)
    /\ UNCHANGED <<db, pending_artists, nsub, queue, interrupted, c_pc, c_key, c_url, c_ret, c_proc>>
    /\ UNCHANGED BOthers

\* line 75: KeyboardInterrupt is raised in the main thread while it submits
\* or waits; it leaves the with block
Interrupt ==
    /\ m_pc \in {"submit", "collect"}
    /\ interrupted' = TRUE
    /\ m_pc' = "join"
    /\ UNCHANGED <<db, pending_artists, nsub, queue, handled, report, c_pc, c_key, c_url, c_ret, c_proc>>
    /\ UNCHANGED BOthers

\* line 48, leaving the with block: executor.shutdown(wait=True) returns
\* once the queue is drained and every worker thread has ended
Join ==
    /\ m_pc = "join"
    /\ queue = <<>>
    /\ \A k \in Artists : ~ Executing(k)
    /\ m_pc' = "done"
    /\ UNCHANGED <<db, pending_artists, nsub, queue, handled, report, interrupted,
                   c_pc, c_key, c_url, c_ret, c_proc>>
    /\ UNCHANGED BOthers

Init == BIdle /\ QIdle /\ SIdle /\ VIdle /\ TIdle /\ EIdle /\ XIdle

Next ==
    \/ MainStart
    \/ Submit
    \/ Interrupt
    \/ Join
    \/ \E k \in Artists : WorkerStart(k) \/ Collect(k) \/ CollectWriteFails(k)
    \/ \E c \in ExtCallers, k \in Artists : ExtCall(c, k)
    \/ \E c \in Callers :
           SearchReturn(c) \/ SearchFailed(c) \/ SearchCrashed(c)
               \/ Persist(c) \/ PersistFails(c)

Spec == Init /\ [][Next]_vars

(***************************************************************************)
(* find_all_channels.main run twice in a row: the search gives one answer  *)
(* per query, nothing else calls the resolver or writes the table, and no  *)
(* run is interrupted.                                                     *)
(***************************************************************************)
\* the ways the search for artist k can answer
FixedAnswers(k) ==
    {[kind |-> "exit0", out |-> o] : o \in SearchOutputs(k)}
        \cup {[kind |-> "nonzero", out |-> <<>>], [kind |-> "oserror", out |-> <<>>]}

TwiceInit ==
    /\ db \in [Artists -> {<<>>} \cup {HandleUrl(k) : k \in Artists}]
    /\ \A k \in Artists : db[k] \in {<<>>, HandleUrl(k)}
    /\ BRunnerIdle
    /\ web \in [Artists -> UNION {FixedAnswers(k) : k \in Artists}]
    /\ \A k \in Artists : web[k] \in FixedAnswers(k)
    /\ runs = 0
    /\ QIdle
    /\ SIdle
    /\ VIdle
    /\ TIdle
    /\ XIdle

TwiceNext ==
    \/ MainStart
    \/ Submit
    \/ Join
    \/ \E k \in Artists :
           \/ WorkerStart(k)
           \/ SearchReturn(k)
           \/ SearchFailed(k)
           \/ SearchCrashed(k)
           \/ Persist(k)
           \/ Collect(k)

SpecTwice == TwiceInit /\ [][TwiceNext]_vars

(***************************************************************************)
(* verify_channel_matches.verify_all_channels                              *)
(***************************************************************************)
\* the song_name column of artist k
SongName(k) == <<"s">> \o ArtistName(k)

\* get_artists_with_channels: the rows with a channel and a song, in row order
RECURSIVE RowsFrom(_, _, _)
RowsFrom(d, sn, k) ==
    IF k > NumArtists THEN <<>>
    ELSE (IF d[k] # <<>> /\ sn[k] # <<>>
          THEN << [name |-> k, song |-> sn[k], channel |-> d[k]] >>
          ELSE <<>>) \o RowsFrom(d, sn, k + 1)

get_artists_with_channels(d, sn) == RowsFrom(d, sn, 1)

\* the UPDATE without its WHERE clause: every row gets the status
update_auto_verified_all(av, d, k, channel, status) == [a \in Artists |-> status]

\* update_auto_verified: UPDATE artists SET auto_verified = status
\* WHERE name = artist AND youtube_channel = channel
update_auto_verified(av, d, k, channel, status) ==
    IF d[k] = channel THEN [av EXCEPT ![k] = status] ELSE av

\* outputs of the within-channel search for the song of artist k: the song
\* itself, or only an unrelated upload
VerifyOutputs(k) ==
    { << <<SongName(k), Uploader, V_1>> >>,
      << <<Stranger, Uploader, V_2>> >> }

\* the subprocess of line 84: timeout=12
VERIFY_TIMEOUT == 12

VerifierProc(h) == [status |-> "running", hung |-> h, timeout |-> VERIFY_TIMEOUT]

VNames == {v_rows[i].name : i \in 1..Len(v_rows)}

VSubmitted == {v_rows[i].name : i \in 1..v_nsub}

VRow(k) == v_rows[CHOOSE i \in 1..Len(v_rows) : v_rows[i].name = k]

VExecuting(k) == u_pc[k] = "wait"

VFinished(k) == k \in VSubmitted /\ u_pc[k] \in {"returned", "raised"}

\* lines 130-140: the snapshot; the CSV file is opened for writing
VStart ==
    /\ v_pc = "idle"
    /\ v_rows' = get_artists_with_channels(db, t_song_name)
    /\ v_pc' = IF v_rows' = <<>> THEN "join" ELSE "submit"
    /\ csv' = <<>>
    /\ UNCHANGED <<auto_verified, v_exc, v_nsub, v_queue, v_handled, u_pc, u_found,
                   u_proc>>
    /\ UNCHANGED <<VOthers, bvars>>

\* line 143: executor.submit(verify_artist, a) for the next row
VSubmit ==
    /\ v_pc = "submit"
    /\ v_nsub < Len(v_rows)
    /\ v_queue' = Append(v_queue, v_rows[v_nsub + 1].name)
    /\ v_nsub' = v_nsub + 1
    /\ v_pc' = IF v_nsub' = Len(v_rows) THEN "collect" ELSE "submit"
    /\ UNCHANGED <<auto_verified, v_exc, v_rows, v_handled, csv, u_pc, u_found, u_proc>>
    /\ UNCHANGED <<VOthers, bvars>>

\* a worker thread takes the next row: verify_artist starts the
\* within-channel search (lines 73-84), which may never answer
VWorkerStart(k) ==
    /\ v_queue # <<>>
    /\ Head(v_queue) = k
    /\ Cardinality({a \in Artists : VExecuting(a)}) < MAX_WORKERS
    /\ v_queue' = Tail(v_queue)
    /\ u_pc' = [u_pc EXCEPT ![k] = "wait"]
    /\ \E h \in BOOLEAN : u_proc' = [u_proc EXCEPT ![k] = VerifierProc(h)]
    /\ UNCHANGED <<auto_verified, v_pc, v_exc, v_rows, v_nsub, v_handled, csv, u_found>>
    /\ UNCHANGED <<VOthers, bvars>>

\* lines 92-116, 124: the search answers; found is bool(url)
VSearchReturn(k) ==
    /\ u_pc[k] = "wait"
    /\ ~ u_proc[k].hung
    /\ \E out \in VerifyOutputs(k) :
           u_found' = [u_found EXCEPT
                          ![k] = Found(BestSongMatch(VRow(k).song, out).best_match)]
    /\ u_pc' = [u_pc EXCEPT ![k] = "returned"]
    /\ u_proc' = [u_proc EXCEPT ![k] = Ended(u_proc[k], "exit0")]
    /\ UNCHANGED <<auto_verified, v_pc, v_exc, v_rows, v_nsub, v_queue, v_handled, csv>>
    /\ UNCHANGED <<VOthers, bvars>>

\* lines 85-87: TimeoutExpired after 12 seconds; the search returns None
VSearchTimeout(k) ==
    /\ u_pc[k] = "wait"
    /\ u_proc[k].timeout > 0
    /\ u_found' = [u_found EXCEPT ![k] = FALSE]
    /\ u_pc' = [u_pc EXCEPT ![k] = "returned"]
    /\ u_proc' = [u_proc EXCEPT ![k] = Ended(u_proc[k], "timeout")]
    /\ UNCHANGED <<auto_verified, v_pc, v_exc, v_rows, v_nsub, v_queue, v_handled, csv>>
    /\ UNCHANGED <<VOthers, bvars>>

\* lines 88-90: yt-dlp exits non-zero; the search returns None
VSearchFailed(k) ==
    /\ u_pc[k] = "wait"
    /\ ~ u_proc[k].hung
    /\ u_found' = [u_found EXCEPT ![k] = FALSE]
    /\ u_pc' = [u_pc EXCEPT ![k] = "returned"]
    /\ u_proc' = [u_proc EXCEPT ![k] = Ended(u_proc[k], "nonzero")]
    /\ UNCHANGED <<auto_verified, v_pc, v_exc, v_rows, v_nsub, v_queue, v_handled, csv>>
    /\ UNCHANGED <<VOthers, bvars>>

\* line 84: check_output raises something else (OSError); verify_artist
\* does not catch it
VSearchCrashed(k) ==
    /\ u_pc[k] = "wait"
    /\ ~ u_proc[k].hung
    /\ u_pc' = [u_pc EXCEPT ![k] = "raised"]
    /\ u_proc' = [u_proc EXCEPT ![k] = Ended(u_proc[k], "oserror")]
    /\ UNCHANGED <<auto_verified, v_pc, v_exc, v_rows, v_nsub, v_queue, v_handled, csv,
                   u_found>>
    /\ UNCHANGED <<VOthers, bvars>>

VAfterHandling(k) ==
    /\ v_handled' = v_handled \cup {k}
    /\ v_pc' = IF v_handled' = VSubmitted THEN "join" ELSE "collect"

\* the loop body with the writerow of line 156 outside the else branch: a
\* found record is written to the CSV file too
VCollect_exports_all(k) ==
    /\ v_pc = "collect"
    /\ VFinished(k)
    /\ k \notin v_handled
    /\ IF u_pc[k] = "raised"
       THEN /\ v_exc' = TRUE
            /\ v_pc' = "join"
            /\ UNCHANGED <<auto_verified, csv, v_handled>>
       ELSE /\ auto_verified' = update_auto_verified(auto_verified, db, k, VRow(k).channel,
                                                     IF u_found[k] THEN 1 ELSE 0)
            /\ csv' = Append(csv, k)
            /\ VAfterHandling(k)
            /\ UNCHANGED v_exc
    /\ UNCHANGED <<v_rows, v_nsub, v_queue, u_pc, u_found, u_proc>>
    /\ UNCHANGED <<VOthers, bvars>>

\* lines 145-157: as_completed yields the finished future of row k; the flag
\* is written, a record that was not found is also written to the CSV file.
\* f.result() re-raises the exception of a unit that raised: it leaves the
\* loop and the with block.
VCollect(k) ==
    /\ v_pc = "collect"
    /\ VFinished(k)
    /\ k \notin v_handled
    /\ IF u_pc[k] = "raised"
       THEN /\ v_exc' = TRUE
            /\ v_pc' = "join"
            /\ UNCHANGED <<auto_verified, csv, v_handled>>
       ELSE /\ auto_verified' = update_auto_verified(auto_verified, db, k, VRow(k).channel,
                                                     IF u_found[k] THEN 1 ELSE 0)
            /\ csv' = IF u_found[k] THEN csv ELSE Append(csv, k)
            /\ VAfterHandling(k)
            /\ UNCHANGED v_exc
    /\ UNCHANGED <<v_rows, v_nsub, v_queue, u_pc, u_found, u_proc>>
    /\ UNCHANGED <<VOthers, bvars>>

\* lines 151, 154: update_auto_verified raises (sqlite3.OperationalError);
\* nothing catches it
VCollectWriteFails(k) ==
    /\ v_pc = "collect"
    /\ VFinished(k)
    /\ k \notin v_handled
    /\ u_pc[k] = "returned"
    /\ v_exc' = TRUE
    /\ v_pc' = "join"
    /\ UNCHANGED <<auto_verified, csv, v_handled, v_rows, v_nsub, v_queue, u_pc, u_found,
                   u_proc>>
    /\ UNCHANGED <<VOthers, bvars>>

\* line 142, leaving the with block: shutdown(wait=True); then the summary
\* is printed, or the exception leaves verify_all_channels
VJoin ==
    /\ v_pc = "join"
    /\ v_queue = <<>>
    /\ \A k \in Artists : ~ VExecuting(k)
    /\ v_pc' = IF v_exc THEN "crashed" ELSE "done"
    /\ UNCHANGED <<auto_verified, v_exc, v_rows, v_nsub, v_queue, v_handled, csv,
                   u_pc, u_found, u_proc>>
    /\ UNCHANGED <<VOthers, bvars>>

\* the table after a batch resolve: every row has a channel or none
VInit ==
    /\ db \in [Artists -> {<<>>} \cup {HandleUrl(k) : k \in Artists}]
    /\ \A k \in Artists : db[k] \in {<<>>, HandleUrl(k)}
    /\ BRunnerIdle
    /\ auto_verified \in [Artists -> {0, 1}]
    /\ VRunnerIdle
    /\ t_song_name \in [Artists -> {<<>>} \cup {SongName(k) : k \in Artists}]
    /\ \A k \in Artists : t_song_name[k] \in {<<>>, SongName(k)}
    /\ t_verified \in [Artists -> {0, 1}]
    /\ EIdle
    /\ QIdle
    /\ SIdle
    /\ XIdle

VNext ==
    \/ VStart
    \/ VSubmit
    \/ VJoin
    \/ \E k \in Artists :
           \/ VWorkerStart(k)
           \/ VSearchReturn(k)
           \/ VSearchTimeout(k)
           \/ VSearchFailed(k)
           \/ VSearchCrashed(k)
           \/ VCollect(k)
           \/ VCollectWriteFails(k)

SpecVerify == VInit /\ [][VNext]_vars

(***************************************************************************)
(* The two normalizers applied to every bounded text, once and again.      *)
(***************************************************************************)
\* letters of the noise words vevo and mv, and the separator
NormChars == {"v", "e", "o", "m", " "}

NInit ==
    /\ n_pc = "input"
    /\ n_text = <<>>
    /\ n_out = NoNorm
    /\ PIdle
    /\ GIdle
    /\ IIdle
    /\ RIdle
    /\ DIdle
    /\ AIdle
    /\ HIdle
    /\ LIdle

\* one more character of the input
NAddChar ==
    /\ n_pc = "input"
    /\ Len(n_text) < MaxTextLen
    /\ \E ch \in NormChars : n_text' = Append(n_text, ch)
    /\ UNCHANGED <<n_pc, n_out>>
    /\ UNCHANGED NOthers

\* normalize_name(x) and normalize(x)
NNormalize ==
    /\ n_pc = "input"
    /\ n_out' = [n_out EXCEPT !.name = normalize_name(n_text),
                              !.title = normalize(n_text)]
    /\ n_pc' = "once"
    /\ UNCHANGED n_text
    /\ UNCHANGED NOthers

\* normalize_name(normalize_name(x)) and normalize(normalize(x))
NNormalizeAgain ==
    /\ n_pc = "once"
    /\ n_out' = [n_out EXCEPT !.name2 = normalize_name(n_out.name),
                              !.title2 = normalize(n_out.title)]
    /\ n_pc' = "twice"
    /\ UNCHANGED n_text
    /\ UNCHANGED NOthers

NNext == NAddChar \/ NNormalize \/ NNormalizeAgain

SpecNorm == NInit /\ [][NNext]_vars

(***************************************************************************)
(* The base similarity of every bounded pair of canonical forms, taken in  *)
(* both directions.                                                        *)
(***************************************************************************)
GInit ==
    /\ g_pc = "input"
    /\ g_a \in Texts(MaxSimLen)
    /\ g_b \in Texts(MaxSimLen)
    /\ g_out = NoSim
    /\ PIdle
    /\ NIdle
    /\ IIdle
    /\ RIdle
    /\ DIdle
    /\ AIdle
    /\ HIdle
    /\ LIdle

\* SequenceMatcher(None, a, b).ratio() and SequenceMatcher(None, b, a).ratio()
GCompare ==
    /\ g_pc = "input"
    /\ g_out' = [ab |-> Ratio(g_a, g_b), ba |-> Ratio(g_b, g_a)]
    /\ g_pc' = "compared"
    /\ UNCHANGED <<g_a, g_b>>
    /\ UNCHANGED GOthers

GNext == GCompare

SpecSim == GInit /\ [][GNext]_vars

(***************************************************************************)
(* export_artists_to_db.export_artists_from_playlists.  The table is the   *)
(* sequence of its rows in id order; a name is a number, 0 the empty name; *)
(* <<>> is a NULL or '' column.                                            *)
(***************************************************************************)
TrackNames == {<<>>, <<"s">>, <<"t">>}

Names(table) == {table[i].name : i \in 1..Len(table)}

NewRow(artist) ==
    [name |-> artist, song_name |-> <<>>, youtube_channel |-> <<>>,
     verified |-> 0, auto_verified |-> 0]

\* line 101 without the UNIQUE constraint on name
insert_plain(table, artist) == Append(table, NewRow(artist))

\* line 101: INSERT OR IGNORE INTO artists (name), name being UNIQUE
insert_or_ignore(table, artist) ==
    IF artist \in Names(table) THEN table ELSE Append(table, NewRow(artist))

\* lines 105-109 without the condition on song_name
update_song_name_always(table, artist, song) ==
    [i \in 1..Len(table) |->
        IF table[i].name = artist THEN [table[i] EXCEPT !.song_name = song]
        ELSE table[i]]

\* lines 105-109: UPDATE artists SET song_name = ? WHERE name = ? AND
\* (song_name IS NULL OR song_name = '')
update_song_name(table, artist, song) ==
    [i \in 1..Len(table) |->
        IF table[i].name = artist /\ table[i].song_name = <<>>
        THEN [table[i] EXCEPT !.song_name = song]
        ELSE table[i]]

\* the rows a table may hold before an ingestion: earlier ingestions,
\* resolutions and verifications
RowsOf(k) ==
    {[name |-> k, song_name |-> sn, youtube_channel |-> ch, verified |-> 0,
      auto_verified |-> av] :
        sn \in {<<>>, <<"s">>}, ch \in {<<>>, HandleUrl(k)}, av \in {0, 1}}

Tables ==
    LET rows == UNION {RowsOf(k) : k \in Artists}
    IN  {<<>>} \cup {<<r>> : r \in rows}
               \cup {t \in {<<r1, r2>> : r1 \in rows, r2 \in rows} : t[1].name # t[2].name}

IInit ==
    /\ i_pc = "fetch"
    /\ i_table \in Tables
    /\ all_artists = [k \in Artists |-> NotSeen]
    /\ i_left = {}
    /\ i_ntracks = 0
    /\ PIdle
    /\ NIdle
    /\ GIdle
    /\ RIdle
    /\ DIdle
    /\ AIdle
    /\ HIdle
    /\ LIdle

\* lines 83-88: one artist of one track; the first song met is kept
IReadTrack ==
    /\ i_pc = "fetch"
    /\ i_ntracks < MaxTracks
    /\ i_ntracks' = i_ntracks + 1
    /\ \E artist_name \in {0} \cup Artists, track_name \in TrackNames :
           all_artists' =
               IF artist_name # 0 /\ all_artists[artist_name] = NotSeen
               THEN [all_artists EXCEPT ![artist_name] = track_name]
               ELSE all_artists
    /\ UNCHANGED <<i_pc, i_table, i_left>>
    /\ UNCHANGED IOthers

\* lines 94-99: the playlists are read; the loop over sorted(all_artists)
IStartUpserts ==
    /\ i_pc = "fetch"
    /\ i_left' = {k \in Artists : all_artists[k] # NotSeen}
    /\ i_pc' = "upsert"
    /\ UNCHANGED <<i_table, all_artists, i_ntracks>>
    /\ UNCHANGED IOthers

NextArtist == CHOOSE k \in i_left : \A j \in i_left : k <= j

\* lines 100-111: the upsert of the next artist
IUpsert ==
    /\ i_pc = "upsert"
    /\ i_left # {}
    /\ i_table' = update_song_name(insert_or_ignore(i_table, NextArtist), NextArtist,
                                   all_artists[NextArtist])
    /\ i_left' = i_left \ {NextArtist}
    /\ UNCHANGED <<i_pc, all_artists, i_ntracks>>
    /\ UNCHANGED IOthers

\* lines 113-114: a statement raises; the artist is reported and skipped
\* (after the INSERT or before it)
IUpsertFails ==
    /\ i_pc = "upsert"
    /\ i_left # {}
    /\ i_table' \in {i_table, insert_or_ignore(i_table, NextArtist)}
    /\ i_left' = i_left \ {NextArtist}
    /\ UNCHANGED <<i_pc, all_artists, i_ntracks>>
    /\ UNCHANGED IOthers

\* lines 116-117: commit and close
ICommit ==
    /\ i_pc = "upsert"
    /\ i_left = {}
    /\ i_pc' = "done"
    /\ UNCHANGED <<i_table, all_artists, i_left, i_ntracks>>
    /\ UNCHANGED IOthers

INext == IReadTrack \/ IStartUpserts \/ IUpsert \/ IUpsertFails \/ ICommit

SpecIngest == IInit /\ [][INext]_vars

(***************************************************************************)
(* verify_false_negatives.get_next_unverified.  Names are numbers ordered  *)
(* as the names are.                                                       *)
(***************************************************************************)
\* line 135: the index of a channel the CSV file does not list
NO_CSV_INDEX == 999999

\* get_csv_index_map, lines 34-44: the 1-based number of the last CSV row
\* that carries the URL
csv_index(csv_rows, url) ==
    LET at == {i \in 1..Len(csv_rows) : csv_rows[i] = url}
    IN  IF at = {} THEN NO_CSV_INDEX ELSE CHOOSE i \in at : \A j \in at : j <= i

\* x put behind every element of the sorted sequence whose key is not greater
RECURSIVE InsertSorted(_, _, _)
InsertSorted(x, seq, key) ==
    IF seq = <<>> THEN <<x>>
    ELSE IF key[x] < key[Head(seq)] THEN <<x>> \o seq
    ELSE <<Head(seq)>> \o InsertSorted(x, Tail(seq), key)

\* a stable sort of a sequence of row numbers by key
RECURSIVE StableSort(_, _)
StableSort(seq, key) ==
    IF seq = <<>> THEN <<>>
    ELSE InsertSorted(seq[Len(seq)], StableSort(SubSeq(seq, 1, Len(seq) - 1), key), key)

RECURSIVE RowNumbers(_)
RowNumbers(n) == IF n = 0 THEN <<>> ELSE Append(RowNumbers(n - 1), n)

RECURSIVE SelectRows(_, _)
SelectRows(seq, keep) ==
    IF seq = <<>> THEN <<>>
    ELSE (IF Head(seq) \in keep THEN <<Head(seq)>> ELSE <<>>) \o SelectRows(Tail(seq), keep)

\* lines 120-129: the pending rows with a channel and a song, ORDER BY name
PendingByName(table) ==
    LET keep == {i \in 1..Len(table) :
                    /\ table[i].youtube_channel # <<>>
                    /\ table[i].song_name # <<>>
                    /\ table[i].verified = 0}
    IN  StableSort(SelectRows(RowNumbers(Len(table)), keep),
                   [i \in 1..Len(table) |-> table[i].name])

\* lines 133-146: the rows sorted again by CSV index; the first is returned
get_next_unverified(table, csv_rows) ==
    LET sorted_rows ==
            StableSort(PendingByName(table),
                       [i \in 1..Len(table) |->
                           csv_index(csv_rows, table[i].youtube_channel)])
    IN  IF sorted_rows = <<>> THEN NoRow
        ELSE [csv_index |-> csv_index(csv_rows, table[sorted_rows[1]].youtube_channel),
              name |-> table[sorted_rows[1]].name]

\* the tables the review tool may find: rows verified by hand or not
ReviewTables ==
    UNION {{[i \in 1..Len(t) |-> [t[i] EXCEPT !.verified = v[i]]] :
                v \in [1..Len(t) -> {0, 1}]} : t \in Tables}

\* the youtube_channel column of the CSV file, row by row
CsvFiles ==
    UNION {[1..n -> {HandleUrl(k) : k \in Artists}] : n \in 0..MaxCsvRows}

RInit ==
    /\ r_pc = "query"
    /\ r_table \in ReviewTables
    /\ r_csv \in CsvFiles
    /\ r_ret = NoRow
    /\ PIdle
    /\ NIdle
    /\ GIdle
    /\ IIdle
    /\ DIdle
    /\ AIdle
    /\ HIdle
    /\ LIdle

RQuery ==
    /\ r_pc = "query"
    /\ r_ret' = get_next_unverified(r_table, r_csv)
    /\ r_pc' = "done"
    /\ UNCHANGED <<r_table, r_csv>>
    /\ UNCHANGED ROthers

RNext == RQuery

SpecReview == RInit /\ [][RNext]_vars

(***************************************************************************)
(* Properties of the scoring loop (SpecScore).                             *)
(***************************************************************************)
QCands == 1..Len(q_output)

\* base similarity of candidate i and the artist, on canonical forms
QBase(i) == Ratio(normalize_name(q_artist), normalize_name(q_output[i].display_name))

\* difference of the canonical-form lengths of candidate i and the artist
QLenDiff(i) ==
    Abs(Len(normalize_name(q_artist)) - Len(normalize_name(q_output[i].display_name)))

\* base similarity plus all applicable bonuses
QTotal(i) ==
    AddCents(QBase(i), Bonus(normalize_name(q_artist),
                             normalize_name(q_output[i].display_name), q_output[i]))

\* the candidates with a name and a youtube.com URL that pass the length
\* pre-filter
QPassLength == {i \in QCands : Usable(q_output[i]) /\ QLenDiff(i) <= 3}

\* those of them whose base similarity is at least 0.6
QPassBase == {i \in QPassLength : 10 * QBase(i).n >= 6 * QBase(i).d}

QMaximalIn(i, S) == i \in S /\ \A j \in S : ~ FracLess(QTotal(i), QTotal(j))

C6_LengthFilter ==
    q_pc = "scored" =>
        /\ q_best.index # 0 => QLenDiff(q_best.index) <= 3
        /\ \A i \in QCands :
               ( /\ Usable(q_output[i])
                 /\ QLenDiff(i) = 3
                 /\ 10 * QBase(i).n >= 6 * QBase(i).d ) => q_best.index # 0

\* the selected candidate is at a length difference of exactly 3
C6_Witness ==
    /\ q_pc = "scored"
    /\ q_best.index # 0
    /\ QLenDiff(q_best.index) = 3

(***************************************************************************)
(* Properties of the song matching (SpecSong).                             *)
(***************************************************************************)
\* the lines that yield a candidate
SCands == {i \in 1..Len(s_output) : HasCandidate(s_output[i])}

\* score of line i: base similarity of the verifier-grade canonical forms,
\* +0.1 for lyric/audio, -0.1 for live/remix/cover/performance
STotal(i) == SongScore(normalize(s_song), normalize(Parts(s_output[i])[1]))

\* C5: search_channel_for_song returns a match (and verify_artist reports
\* found) if and only if the best candidate's score, bonus and penalty
\* applied, is at least 0.4; the match is the URL of a best candidate, and
\* below the threshold the result is None.
C5_VerifyThreshold ==
    s_pc = "scored" =>
        /\ Found(s_ret.best_match) <=>
               \E i \in SCands : 100 * STotal(i).n >= 40 * STotal(i).d
        /\ Found(s_ret.best_match) =>
               /\ s_ret.index \in SCands
               /\ s_ret.best_match = Parts(s_output[s_ret.index])[3]
               /\ \A j \in SCands : ~ FracLess(STotal(s_ret.index), STotal(j))
        /\ ~ Found(s_ret.best_match) => s_ret.best_match = None

\* a best candidate whose score is exactly 0.4 has been returned
C5_Witness ==
    /\ s_pc = "scored"
    /\ Found(s_ret.best_match)
    /\ 100 * s_ret.best_score.n = 40 * s_ret.best_score.d

(***************************************************************************)
(* Properties of the Resolver under concurrent callers and of the batch    *)
(* resolve runner (Spec).                                                  *)
(***************************************************************************)
\* the callers whose external search for artist k is in flight
InFlight(k) == {c \in Callers : c_key[c] = k /\ c_proc[c].status = "running"}

\* C1: single-flight; for every artist at most one external search is in
\* flight at any time.
C1_SingleFlight == \A k \in Artists : Cardinality(InFlight(k)) <= 1

\* caller c starts a call of find_or_cache_artist_channel for artist k
BeginsCall(c, k) == (c = k /\ WorkerStart(k)) \/ ExtCall(c, k)

\* C2: once a successful resolution has persisted a URL for an artist, a
\* call for that artist is a pure cache hit: it returns the persisted URL,
\* starts no external search and leaves the table as it is.
C2_CacheHit ==
    [][ \A c \in Callers, k \in Artists :
            (BeginsCall(c, k) /\ db[k] # <<>>) =>
                /\ c_pc'[c] = "returned"
                /\ c_ret'[c] = db[k]
                /\ c_proc'[c].status # "running"
                /\ InFlight(k)' = InFlight(k)
                /\ db' = db ]_vars

\* a call has returned the persisted URL without a search of its own
C2_Witness ==
    \E c \in Callers :
        /\ c_pc[c] = "returned"
        /\ c_ret[c] # <<>>
        /\ c_proc[c].status = "none"
        /\ c_url[c] = <<>>
        /\ db[c_key[c]] = c_ret[c]

\* the URLs a resolution can accept for artist k
AcceptedUrls(k) ==
    {BestChannel(ArtistName(k), out).best_url : out \in SearchOutputs(k)} \ {<<>>}

\* C3: every write of channelURL, by the Resolver or by the runner, stores
\* the URL of an accepted resolution; a set channelURL is never replaced by
\* an empty value.
C3_NeverEmptied ==
    [][ \A k \in Artists :
            /\ db'[k] # db[k] => db'[k] \in AcceptedUrls(k)
            /\ db[k] # <<>> => db'[k] # <<>> ]_vars

\* a set channelURL has been overwritten by another successful resolution
C3_Witness ==
    \E k \in Artists, c \in Callers :
        /\ db[k] # <<>>
        /\ c_key[c] = k
        /\ c_pc[c] = "returned"
        /\ c_ret[c] # <<>>
        /\ c_ret[c] # db[k]

\* the names of the snapshot
Snapshot == {pending_artists[i] : i \in 1..Len(pending_artists)}

C8_EverySearchHasTimeout ==
    \A c \in Callers : c_proc[c].status = "running" => c_proc[c].timeout > 0

\* C9, batch resolve runner: a run that is not interrupted ends with every
\* artist of the snapshot handled, a unit that raised being reported as
\* failed.
C9_ResolveIsolation ==
    (m_pc = "done" /\ ~ interrupted) =>
        /\ handled = Snapshot
        /\ \A k \in Snapshot : c_pc[k] = "raised" => report[k] = "failed"

\* C10: after the interrupt no unit that had not started executing begins.
C10_NoStartAfterInterrupt ==
    [][ \A k \in Artists : (interrupted /\ InQueue(k)) => InQueue(k)' ]_vars

(***************************************************************************)
(* Properties of the verification runner (SpecVerify).                     *)
(***************************************************************************)
\* C9, verification runner: when the batch has ended, however one unit
\* fared, every record of the snapshot has been handled (its flag written).
C9_VerifyIsolation ==
    v_pc \in {"done", "crashed"} => v_handled = VNames

\* the main thread handles the future of row k in this step
VHandles(k) == k \notin v_handled /\ k \in v_handled'

\* the within-channel search of row k ended without an answer
VSearchGaveNoEvidence(k) == u_proc[k].status \in {"timeout", "nonzero"}

\* C11: a record whose within-channel search failed (timeout or non-zero
\* exit) is not persisted as rejected and is not written to the
\* failed-verification list: handling it leaves its auto_verified flag and
\* the list as they were.
C11_FailureIsNoEvidence ==
    [][ \A k \in Artists :
            (VHandles(k) /\ VSearchGaveNoEvidence(k)) =>
                (auto_verified'[k] = auto_verified[k] /\ csv' = csv) ]_vars

\* C12: a verification run never writes youtube_channel, song_name or
\* verified, and a step changes the auto_verified flag of a record only
\* when it handles that record.
C12_VerifyFrame ==
    [][ /\ db' = db
        /\ t_song_name' = t_song_name
        /\ t_verified' = t_verified
        /\ \A k \in Artists : auto_verified'[k] # auto_verified[k] => VHandles(k) ]_vars

\* a finished batch that accepted one record (flag raised from 0) and handled
\* another whose search failed (flag lowered from 1)
C12_Witness ==
    /\ v_pc = "done"
    /\ \E k, j \in v_handled :
           /\ u_found[k] /\ auto_verified[k] = 1
           /\ VSearchGaveNoEvidence(j) /\ auto_verified[j] = 0

\* the CSV rows of record k
CsvRows(k) == {i \in 1..Len(csv) : csv[i] = k}

\* C13: when the batch has run to its end, whatever the order in which the
\* units completed, the review list holds exactly one row for every record
\* of the snapshot that was not found and no row for a record that was found.
C13_ReviewList ==
    v_pc = "done" =>
        /\ \A i \in 1..Len(csv) : csv[i] \in VNames
        /\ \A k \in VNames :
               Cardinality(CsvRows(k)) = IF u_found[k] THEN 0 ELSE 1

\* a batch at its end whose units completed against the order of
\* submission, both records not found and exported
C13_Witness ==
    /\ v_pc = "done"
    /\ Len(v_rows) = 2
    /\ v_rows[1].name = 1
    /\ csv = <<2, 1>>

(***************************************************************************)
(* Properties of two runs in a row (SpecTwice).                            *)
(***************************************************************************)
\* C14: with the same answer to every query and no other writer, no step of
\* the second run of find_all_channels.main changes a row of the table.
C14_SecondRunChangesNothing ==
    [][ runs >= 2 => db' = db ]_vars

\* the second run has ended after searching again for an artist the first
\* run left pending, next to an artist the first run resolved
C14_Witness ==
    /\ runs = 2
    /\ m_pc = "done"
    /\ \E k, j \in Artists :
           /\ db[k] # <<>> /\ web[k].kind = "exit0"
           /\ db[j] = <<>> /\ j \in handled /\ report[j] = "notfound"

(***************************************************************************)
(* Properties of the normalizers (SpecNorm).                               *)
(***************************************************************************)
\* C15: both normalizers are idempotent: normalizing the normalized text
\* gives the normalized text, for normalize_name and for normalize.
C15_Idempotent ==
    n_pc = "twice" => (n_out.name2 = n_out.name /\ n_out.title2 = n_out.title)

(***************************************************************************)
(* Properties of the base similarity (SpecSim).                            *)
(***************************************************************************)
\* C16: the base similarity is symmetric: the ratio of a against b equals
\* the ratio of b against a.
C16_Symmetric ==
    g_pc = "compared" => g_out.ab = g_out.ba

(***************************************************************************)
(* The end-to-end example of the verifier (SpecSong).                      *)
(***************************************************************************)
OfficialAudioTitle ==
    <<"D", "a", "f", "t", " ", "P", "u", "n", "k", " ", "-", " ">> \o GetLucky
        \o <<" ", "(", "O", "f", "f", "i", "c", "i", "a", "l", " ",
             "A", "u", "d", "i", "o", ")">>

LiveInParisTitle ==
    GetLucky \o <<" ", "(", "L", "i", "v", "e", " ", "i", "n", " ",
                  "P", "a", "r", "i", "s", ")">>

\* the search for "Get Lucky" has printed one line and it has been scored
OnlyCandidate(title) ==
    /\ s_pc = "scored"
    /\ s_song = GetLucky
    /\ Len(s_output) = 1
    /\ s_output[1][1] = title

\* C17: for the song "Get Lucky", the only candidate "Daft Punk - Get Lucky
\* (Official Audio)" scores above 0.4 and is accepted; the only candidate
\* "Get Lucky (Live in Paris)" scores lower than that and is rejected.
C17_GetLuckyScenario ==
    /\ OnlyCandidate(OfficialAudioTitle) =>
           /\ Found(s_ret.best_match)
           /\ 100 * STotal(1).n > 40 * STotal(1).d
    /\ OnlyCandidate(LiveInParisTitle) =>
           /\ FracLess(STotal(1), SongScore(normalize(GetLucky),
                                            normalize(OfficialAudioTitle)))
           /\ ~ Found(s_ret.best_match)

(***************************************************************************)
(* Properties of candidate selection (SpecSelect).                         *)
(***************************************************************************)
\* score x is strictly higher than score y
Higher(x, y) == x.n * y.d > y.n * x.d

\* C18: in the Resolver and in the Verifier the selected candidate has the
\* highest score of all candidates, and every candidate printed before it
\* has a strictly lower score: of several best candidates the earliest wins.
C18_SelectionOrder ==
    /\ (q_pc = "scored" /\ q_best.index # 0) =>
           /\ q_best.index \in QPassBase
           /\ \A j \in QPassBase :
                  /\ ~ Higher(QTotal(j), QTotal(q_best.index))
                  /\ j < q_best.index => Higher(QTotal(q_best.index), QTotal(j))
    /\ (s_pc = "scored" /\ s_ret.index # 0) =>
           /\ s_ret.index \in SCands
           /\ \A j \in SCands :
                  /\ ~ Higher(STotal(j), STotal(s_ret.index))
                  /\ j < s_ret.index => Higher(STotal(s_ret.index), STotal(j))

\* the Resolver scored two different candidates with equal scores and kept
\* the first
C18_Witness ==
    /\ q_pc = "scored"
    /\ QPassBase = {1, 2}
    /\ ~ Higher(QTotal(1), QTotal(2)) /\ ~ Higher(QTotal(2), QTotal(1))
    /\ q_output[1] # q_output[2]
    /\ q_best.index = 1
    /\ q_best.best_url = q_output[1].channel_url

\* the Verifier scored two titles with equal scores and kept the first
C18_VerifierTie ==
    /\ s_pc = "scored"
    /\ SCands = {1, 2}
    /\ ~ Higher(STotal(1), STotal(2)) /\ ~ Higher(STotal(2), STotal(1))
    /\ s_output[1][3] # s_output[2][3]
    /\ s_ret.index = 1
    /\ s_ret.best_match = s_output[1][3]

(***************************************************************************)
(* Properties of the ingestion (SpecIngest).                               *)
(***************************************************************************)
\* row i of the table is kept by the step: same name, channel and
\* verification fields, and the same song unless the song was empty
RowKept(i) ==
    /\ i <= Len(i_table')
    /\ i_table'[i].name = i_table[i].name
    /\ i_table'[i].youtube_channel = i_table[i].youtube_channel
    /\ i_table'[i].verified = i_table[i].verified
    /\ i_table'[i].auto_verified = i_table[i].auto_verified
    /\ i_table[i].song_name # <<>> => i_table'[i].song_name = i_table[i].song_name

UniqueNames == \A i, j \in 1..Len(i_table) : i_table[i].name = i_table[j].name => i = j

\* C19: names stay unique; a step of the ingestion deletes no row, inserts
\* at most one row and only under a name no row has, and changes of an
\* existing row nothing but an empty song_name.
C19_Upsert ==
    /\ [] UniqueNames
    /\ [][ /\ \A i \in 1..Len(i_table) : RowKept(i)
           /\ Len(i_table') <= Len(i_table) + 1
           /\ Len(i_table') = Len(i_table) + 1 =>
                  i_table'[Len(i_table')].name \notin Names(i_table) ]_vars

\* an ingestion has ended that upserted two artists with the song "t": one
\* row was new or had no song and holds "t", the other keeps its song "s"
C19_Witness ==
    /\ i_pc = "done"
    /\ Len(i_table) = 2
    /\ \E i, j \in 1..2 :
           /\ all_artists[i_table[i].name] = <<"t">>
           /\ i_table[i].song_name = <<"s">>
           /\ all_artists[i_table[j].name] = <<"t">>
           /\ i_table[j].song_name = <<"t">>

(***************************************************************************)
(* Properties of the review query (SpecReview).                            *)
(***************************************************************************)
\* the names of the pending rows that have a channel and a song
ReviewNames ==
    {r_table[i].name : i \in {j \in 1..Len(r_table) :
                                 /\ r_table[j].youtube_channel # <<>>
                                 /\ r_table[j].song_name # <<>>
                                 /\ r_table[j].verified = 0}}

\* C20: get_next_unverified returns the first pending record in ascending
\* order of name (names are unique, so the CSV index never has a tie to
\* break), and None when no record is pending.
C20_OrderedByName ==
    r_pc = "done" =>
        IF ReviewNames = {} THEN r_ret = NoRow
        ELSE /\ r_ret # NoRow
             /\ r_ret.name \in ReviewNames
             /\ \A n \in ReviewNames : r_ret.name <= n

\* ---------------------------------------------------------------------
\* The artists table and the startup migrations of the entry points
\* (export_artists_to_db.py, verify_channel_matches.py,
\* verify_false_negatives.py).  A table is a record: whether it exists,
\* its set of column names, and its rows, each row a function from the
\* column names to text values.
\* ---------------------------------------------------------------------

MaxSchemaRows == 2

MaxMigrationRuns == 2

Null == "NULL"

NoTable == [exists |-> FALSE, columns |-> {}, rows |-> <<>>]

BaseColumns == {"id", "name"}

\* CREATE TABLE after dropping the table: the destructive variant
create_table_dropping(t) ==
    [exists |-> TRUE, columns |-> BaseColumns, rows |-> <<>>]

\* CREATE TABLE IF NOT EXISTS artists (id ..., name TEXT UNIQUE)
create_table_if_not_exists(t) ==
    IF t.exists THEN t
    ELSE [exists |-> TRUE, columns |-> BaseColumns, rows |-> <<>>]

\* PRAGMA table_info(artists): the column names, none for a missing table
table_info(t) == IF t.exists THEN t.columns ELSE {}

\* ALTER TABLE artists ADD COLUMN col ... [DEFAULT default] on an existing table
add_column(t, col, default) ==
    [exists  |-> TRUE,
     columns |-> t.columns \cup {col},
     rows    |-> [i \in DOMAIN t.rows |->
                    [c \in t.columns \cup {col} |->
                        IF c \in t.columns THEN t.rows[i][c] ELSE default]]]

\* the outcome of a migration: the table it leaves and whether it raised
Done(t) == [table |-> t, raised |-> FALSE]

Raised(t) == [table |-> t, raised |-> TRUE]

init_db(t) ==
    LET t1 == create_table_if_not_exists(t)
        columns == table_info(t1)
        t2 == IF "song_name" \notin columns
              THEN add_column(t1, "song_name", Null) ELSE t1
        t3 == IF "channel_url" \notin columns
              THEN add_column(t2, "channel_url", Null) ELSE t2
    IN  Done(t3)

ensure_auto_verified_column(t) ==
    LET cols == table_info(t)
    IN  IF "auto_verified" \notin cols
        THEN IF t.exists THEN Done(add_column(t, "auto_verified", "0"))
             ELSE Raised(t)
        ELSE Done(t)

ensure_verified_columns(t) ==
    LET cols == table_info(t)
        t1 == IF "verified" \notin cols
              THEN add_column(t, "verified", "0") ELSE t
        t2 == IF "auto_verified" \notin cols
              THEN add_column(t1, "auto_verified", "0") ELSE t1
    IN  IF t.exists THEN Done(t2) ELSE Raised(t)

Migrations == {"init_db", "ensure_auto_verified_column", "ensure_verified_columns"}

Migrate(m, t) ==
    IF m = "init_db" THEN init_db(t)
    ELSE IF m = "ensure_auto_verified_column" THEN ensure_auto_verified_column(t)
    ELSE ensure_verified_columns(t)

\* the columns each statement of the programs names
StatementColumns ==
    [get_artist_channel        |-> {"youtube_channel", "name"},
     set_artist_channel        |-> {"youtube_channel", "name"},
     get_pending_artists       |-> {"name", "youtube_channel"},
     update_channel_in_db      |-> {"youtube_channel", "name"},
     get_artists_with_channels |-> {"id", "name", "song_name", "youtube_channel"},
     update_auto_verified      |-> {"auto_verified", "name", "youtube_channel"},
     get_next_unverified       |-> {"id", "name", "song_name", "youtube_channel", "verified"},
     verify                    |-> {"verified", "id"},
     export_artists_from_playlists |-> {"name", "song_name"}]

Statements == DOMAIN StatementColumns

\* sqlite3 raises OperationalError for a missing table or column
Execute(t, st) ==
    IF ~t.exists THEN "no such table"
    ELSE IF ~(StatementColumns[st] \subseteq t.columns) THEN "no such column"
    ELSE "ok"

SchemaNames == {"a", "b", "c"}

\* AUTOINCREMENT: the id of the n-th row
RowIds == <<"1", "2", "3", "4">>

ColumnDefault(c) == IF c \in {"auto_verified", "verified"} THEN "0" ELSE Null

ColumnValues(c) ==
    IF c = "id" THEN {"1"}
    ELSE IF c = "name" THEN {"a"}
    ELSE IF c = "song_name" THEN {Null, "s"}
    ELSE IF c = "channel_url" THEN {Null, "u"}
    ELSE {"0", "1"}

MigrationColumns == {"song_name", "channel_url", "auto_verified", "verified"}

\* the stores a start can find: no table, or a table with the base
\* columns, some of the migrations' columns and at most one row
StartTables ==
    {NoTable} \cup
    UNION {LET cols == BaseColumns \cup extra
               Rows == {r \in [cols -> {Null, "0", "1", "a", "s", "u"}] :
                            \A c \in cols : r[c] \in ColumnValues(c)}
           IN  {[exists |-> TRUE, columns |-> cols, rows |-> <<>>]} \cup
               {[exists |-> TRUE, columns |-> cols, rows |-> <<r>>] : r \in Rows}
           : extra \in SUBSET MigrationColumns}

Table == [exists |-> d_exists, columns |-> d_columns, rows |-> d_rows]

SetTable(t) ==
    /\ d_exists' = t.exists
    /\ d_columns' = t.columns
    /\ d_rows' = t.rows

DInit ==
    /\ PIdle
    /\ NIdle
    /\ GIdle
    /\ IIdle
    /\ RIdle
    /\ AIdle
    /\ HIdle
    /\ LIdle
    /\ \E t \in StartTables :
        /\ d_exists = t.exists
        /\ d_columns = t.columns
        /\ d_rows = t.rows
        /\ d_start = t.columns
    /\ d_ran = [m \in Migrations |-> 0]
    /\ d_last = "ok"

\* an entry point starts and runs its migration
DMigrate ==
    \E m \in Migrations :
        /\ d_ran[m] < MaxMigrationRuns
        /\ LET res == Migrate(m, Table)
           IN  /\ SetTable(res.table)
               /\ d_ran' = IF res.raised THEN d_ran ELSE [d_ran EXCEPT ![m] = @ + 1]
               /\ d_last' = IF res.raised THEN "no such table" ELSE "ok"
        /\ UNCHANGED <<d_start, DOthers>>

\* INSERT OR IGNORE INTO artists (name) VALUES (?), run after init_db
DInsert ==
    \E name \in SchemaNames :
        /\ d_exists
        /\ d_ran["init_db"] > 0
        /\ Len(d_rows) < MaxSchemaRows
        /\ d_rows' =
              IF \E i \in DOMAIN d_rows : d_rows[i]["name"] = name THEN d_rows
              ELSE Append(d_rows,
                     [c \in d_columns |->
                        IF c = "name" THEN name
                        ELSE IF c = "id" THEN RowIds[Len(d_rows) + 1]
                        ELSE ColumnDefault(c)])
        /\ d_last' = "ok"
        /\ UNCHANGED <<d_exists, d_columns, d_ran, d_start, DOthers>>

\* a statement of one of the programs is executed against the table
DStatement ==
    \E st \in Statements :
        /\ d_last' = Execute(Table, st)
        /\ UNCHANGED <<d_exists, d_columns, d_rows, d_ran, d_start, DOthers>>

DNext == DMigrate \/ DInsert \/ DStatement

SpecSchema == DInit /\ [][DNext]_vars

\* ---- C21: the migrations are idempotent and only add columns ----

\* the columns a migration leaves in the table once it has completed
ColumnsAfter(m) ==
    IF m = "init_db" THEN {"id", "name", "song_name", "channel_url"}
    ELSE IF m = "ensure_auto_verified_column" THEN {"auto_verified"}
    ELSE {"verified", "auto_verified"}

Completed == {m \in Migrations : d_ran[m] > 0}

SchemaOfCompleted ==
    d_columns = d_start \cup UNION {ColumnsAfter(m) : m \in Completed}

RowsKept ==
    /\ d_exists => d_exists'
    /\ d_columns \subseteq d_columns'
    /\ Len(d_rows) <= Len(d_rows')
    /\ \A i \in DOMAIN d_rows : \A c \in d_columns : d_rows'[i][c] = d_rows[i][c]

\* C21: whatever migrations run, however often and in whatever order, the
\* columns of the table are the columns it started with plus the columns of
\* the migrations that completed (so a second run of a migration changes
\* nothing and the order does not matter), and no step removes the table, a
\* column or a row, or changes the value an existing row has in an existing
\* column.  A migration that raises because the table is missing leaves the
\* store as it was and does not count as completed.
C21_MigrationsAdditive == [](SchemaOfCompleted) /\ [][RowsKept]_vars

\* every migration ran twice on a table that started with a row holding a
\* song and without the flag columns
C21_Witness ==
    /\ \A m \in Migrations : d_ran[m] = MaxMigrationRuns
    /\ d_start = {"id", "name", "song_name"}
    /\ Len(d_rows) >= 1
    /\ d_rows[1]["song_name"] = "s"
    /\ d_columns = BaseColumns \cup MigrationColumns

\* ---- C28: the columns the programs use exist after the migrations ----

\* C28: starting from a store without the artists table, once init_db,
\* ensure_auto_verified_column and ensure_verified_columns have completed,
\* no statement of the resolver cache, the batch runners or the review
\* query fails for a missing column.
C28_ColumnsExist ==
    (d_start = {} /\ Completed = Migrations) => d_last # "no such column"

\* ---- C22: the equality and the containment bonus exclude each other ----

QArtistNorm == normalize_name(q_artist)

QDisplayNorm(i) == normalize_name(q_output[i].display_name)

QEqualForms(i) == QArtistNorm = QDisplayNorm(i)

QContainedForms(i) ==
    Contains(QDisplayNorm(i), QArtistNorm) \/ Contains(QArtistNorm, QDisplayNorm(i))

\* the bonuses that do not depend on the comparison of the names
QOtherBonus(i) ==
      (IF Contains(Lower(q_output[i].display_name), Official) THEN 10 ELSE 0)
    + (IF HasHandle(q_output[i].channel_url) THEN 15 ELSE 0)
    + (IF HasOfficialArtistChannel(q_output[i].channel_url) THEN 25 ELSE 0)

\* what was added to the base similarity of the accepted candidate for the
\* comparison of the names, in hundredths, as a fraction of denominator
\* 100 * d: score - base - other bonuses
QNameBonusIs(i, cents) ==
    q_best.best_similarity = AddCents(QBase(i), cents + QOtherBonus(i))

\* C22: the score of the accepted candidate holds the equality bonus (0.3)
\* alone when the canonical forms are equal, the containment bonus (0.2)
\* alone when they differ and one contains the other, and neither otherwise;
\* the two are never both added, also when the canonical forms are empty.
C22_BonusesExclusive ==
    (q_pc = "scored" /\ q_best.index # 0) =>
        LET i == q_best.index
        IN  /\ QEqualForms(i) => QNameBonusIs(i, 30)
            /\ (~ QEqualForms(i) /\ QContainedForms(i)) => QNameBonusIs(i, 20)
            /\ (~ QEqualForms(i) /\ ~ QContainedForms(i)) => QNameBonusIs(i, 0)

\* a candidate was accepted whose canonical form and the artist's are both
\* empty: they are equal and each contains the other
C22_Witness ==
    /\ q_pc = "scored"
    /\ q_best.index # 0
    /\ QArtistNorm = <<>>
    /\ QDisplayNorm(q_best.index) = <<>>

\* ---- C23: the verifier's title bonus and penalty ----

\* the title of line i as the search printed it, in lower case
STitle(i) == Lower(Parts(s_output[i])[1])

STitleHas(i, words) == \E w \in words : Contains(STitle(i), w)

\* C23: the score kept for the best candidate is its base similarity, plus
\* 0.1 when its title contains "lyric" or "audio", minus 0.1 when its title
\* contains "live", "remix", "cover" or "performance".
C23_TitleBonus ==
    (s_pc = "scored" /\ s_ret.index # 0) =>
        LET i == s_ret.index
            base == Ratio(normalize(s_song), normalize(Parts(s_output[i])[1]))
        IN  s_ret.best_score =
                AddCents(base,
                         (IF STitleHas(i, { <<"l", "y", "r", "i", "c">>,
                                            <<"a", "u", "d", "i", "o">> })
                          THEN 10 ELSE 0)
                         - (IF STitleHas(i, { <<"l", "i", "v", "e">>,
                                              <<"r", "e", "m", "i", "x">>,
                                              <<"c", "o", "v", "e", "r">>,
                                              <<"p", "e", "r", "f", "o", "r", "m", "a", "n", "c", "e">> })
                            THEN 10 ELSE 0))

\* ---- C24: the persisted URL is absolute ----

UrlSchemes == {Scheme, "http://"}

UrlHosts == {Host, "example.com"}

\* a scheme, a host, then a path that holds neither
WellFormedAbsolute(url) ==
    /\ Len(url) >= 2
    /\ url[1] = Scheme
    /\ url[2] \in UrlHosts
    /\ \A i \in 3..Len(url) : url[i] \notin UrlSchemes \cup UrlHosts

IsRelative(url) ==
    url # <<>> /\ \A i \in 1..Len(url) : url[i] \notin UrlSchemes \cup UrlHosts

\* C24: when the only candidate carries the artist's own name and a relative
\* URL it is accepted and the URL kept is the fixed host followed by that
\* path; and every URL the resolver keeps is one well-formed absolute URL.
C24_AbsoluteUrl ==
    q_pc = "scored" =>
        /\ ( /\ Len(q_output) = 1
             /\ q_output[1].display_name = q_artist
             /\ IsRelative(q_output[1].channel_url) )
           => q_best.best_url = <<Scheme, Host>> \o q_output[1].channel_url
        /\ q_best.index # 0 => WellFormedAbsolute(q_best.best_url)

\* ---- C25: malformed output lines are skipped ----

ThreeFields(line) == Len(line) = 3

\* C25: the result of the matching is the result for the output without the
\* lines that do not have exactly three fields: such a line supplies no
\* title and no URL, and the other lines are parsed as if it were not there.
C25_MalformedSkipped ==
    s_pc = "scored" =>
        LET clean == BestSongMatch(s_song, SelectSeq(s_output, ThreeFields))
        IN  /\ s_ret.best_match = clean.best_match
            /\ s_ret.best_score = clean.best_score

\* ---------------------------------------------------------------------
\* The in-memory album cache (youtube_searcher.py, YOUTUBE_CACHE and
\* cache_youtube_album_search), called by several workers.  A worker that
\* waits for ever in the channel search of find_or_cache_artist_channel
\* (no timeout) simply takes no further step.
\* ---------------------------------------------------------------------

NumAlbumWorkers == 2

AlbumWorkers == 1..NumAlbumWorkers

AlbumArtists == { <<"A">>, <<"a">>, <<"b">> }

\* artist_key = artist.lower()
AlbumKey(artist) == Lower(artist)

AlbumKeys == {AlbumKey(a) : a \in AlbumArtists}

Absent == [present |-> FALSE, entries |-> <<>>]

\* lines 180-186: the entries read from the lines of the listing
RECURSIVE ParseEntries(_)
ParseEntries(out) ==
    IF out = <<>> THEN <<>>
    ELSE LET parts == Parts(Head(out))
         IN  (IF Len(parts) < 3 THEN <<>>
              ELSE << [title |-> parts[1], uploader |-> parts[2], url |-> parts[3]] >>)
             \o ParseEntries(Tail(out))

AlbumOutputs ==
    { <<>>,
      << <<GetLucky, Uploader, V_1>> >>,
      << <<GetLucky, V_1>>, <<GetLucky, Uploader, V_2>> >> }

\* line 188: YOUTUBE_CACHE[artist_key] = entries
cache_store(cache, key, entries) ==
    [cache EXCEPT ![key] = [present |-> TRUE, entries |-> entries]]

\* variant of on_search_failure: an empty result is stored for the key
on_search_failure_storing(cache, key) == cache_store(cache, key, <<>>)

\* lines 173-178: TimeoutExpired and CalledProcessError return without writing
on_search_failure(cache, key) == cache

AInit ==
    /\ PIdle
    /\ NIdle
    /\ GIdle
    /\ IIdle
    /\ RIdle
    /\ DIdle
    /\ HIdle
    /\ LIdle
    /\ a_pc = [w \in AlbumWorkers |-> "idle"]
    /\ a_artist = [w \in AlbumWorkers |-> <<>>]
    /\ a_url = [w \in AlbumWorkers |-> <<>>]
    /\ a_calls = [w \in AlbumWorkers |-> 0]
    /\ a_ret = [w \in AlbumWorkers |-> "none"]
    /\ a_channel \in [AlbumArtists -> {<<>>, U_handle}]
    /\ YOUTUBE_CACHE = [k \in AlbumKeys |-> Absent]

\* lines 141-149: the call, and its test of artist_key in YOUTUBE_CACHE
ACall(w) ==
    /\ a_pc[w] = "idle"
    /\ \E artist \in AlbumArtists :
        /\ a_artist' = [a_artist EXCEPT ![w] = artist]
        /\ IF YOUTUBE_CACHE[AlbumKey(artist)].present
           THEN /\ a_pc' = [a_pc EXCEPT ![w] = "done"]
                /\ a_ret' = [a_ret EXCEPT ![w] = "hit"]
           ELSE /\ a_pc' = [a_pc EXCEPT ![w] = "get_channel"]
                /\ a_ret' = [a_ret EXCEPT ![w] = "none"]
    /\ a_calls' = [a_calls EXCEPT ![w] = 0]
    /\ a_url' = [a_url EXCEPT ![w] = <<>>]
    /\ UNCHANGED <<a_channel, YOUTUBE_CACHE, AOthers>>

\* line 152: channel_url = get_artist_channel(artist)
AGetChannel(w) ==
    /\ a_pc[w] = "get_channel"
    /\ LET channel_url == get_artist_channel(a_channel, a_artist[w])
       IN  /\ a_url' = [a_url EXCEPT ![w] = channel_url]
           /\ a_pc' = [a_pc EXCEPT ![w] = IF channel_url # <<>> THEN "search" ELSE "resolve"]
    /\ UNCHANGED <<a_artist, a_calls, a_ret, a_channel, YOUTUBE_CACHE, AOthers>>

\* lines 153-154: find_or_cache_artist_channel returns the stored channel,
\* or searches and then returns and stores a channel, or returns ""
AResolve(w) ==
    /\ a_pc[w] = "resolve"
    /\ LET cached == get_artist_channel(a_channel, a_artist[w])
       IN  \E found \in {<<>>, U_handle} :
             LET channel_url == IF cached # <<>> THEN cached ELSE found
             IN  /\ a_url' = [a_url EXCEPT ![w] = channel_url]
                 /\ a_channel' = IF cached = <<>> /\ found # <<>>
                                 THEN set_artist_channel(a_channel, a_artist[w], found)
                                 ELSE a_channel
    /\ a_pc' = [a_pc EXCEPT ![w] = "search"]
    /\ UNCHANGED <<a_artist, a_calls, a_ret, YOUTUBE_CACHE, AOthers>>

\* lines 157-172: the listing search is started
ASearchStart(w) ==
    /\ a_pc[w] = "search"
    /\ a_calls' = [a_calls EXCEPT ![w] = @ + 1]
    /\ a_pc' = [a_pc EXCEPT ![w] = "searching"]
    /\ UNCHANGED <<a_artist, a_url, a_ret, a_channel, YOUTUBE_CACHE, AOthers>>

\* lines 172, 180-189: the listing search returns and its entries are stored
ASearchReturn(w) ==
    /\ a_pc[w] = "searching"
    /\ \E out \in AlbumOutputs :
         YOUTUBE_CACHE' = cache_store(YOUTUBE_CACHE, AlbumKey(a_artist[w]), ParseEntries(out))
    /\ a_ret' = [a_ret EXCEPT ![w] = "ok"]
    /\ a_pc' = [a_pc EXCEPT ![w] = "done"]
    /\ UNCHANGED <<a_artist, a_url, a_calls, a_channel, AOthers>>

\* lines 173-175: the listing search exceeds its 12 seconds
ASearchTimeout(w) ==
    /\ a_pc[w] = "searching"
    /\ YOUTUBE_CACHE' = on_search_failure(YOUTUBE_CACHE, AlbumKey(a_artist[w]))
    /\ a_ret' = [a_ret EXCEPT ![w] = "timeout"]
    /\ a_pc' = [a_pc EXCEPT ![w] = "done"]
    /\ UNCHANGED <<a_artist, a_url, a_calls, a_channel, AOthers>>

\* lines 176-178: the listing search exits with an error
ASearchFailed(w) ==
    /\ a_pc[w] = "searching"
    /\ YOUTUBE_CACHE' = on_search_failure(YOUTUBE_CACHE, AlbumKey(a_artist[w]))
    /\ a_ret' = [a_ret EXCEPT ![w] = "failed"]
    /\ a_pc' = [a_pc EXCEPT ![w] = "done"]
    /\ UNCHANGED <<a_artist, a_url, a_calls, a_channel, AOthers>>

\* the worker goes on to its next track
AReturn(w) ==
    /\ a_pc[w] = "done"
    /\ a_pc' = [a_pc EXCEPT ![w] = "idle"]
    /\ UNCHANGED <<a_artist, a_url, a_calls, a_ret, a_channel, YOUTUBE_CACHE, AOthers>>

ANext ==
    \E w \in AlbumWorkers :
        \/ ACall(w)
        \/ AGetChannel(w)
        \/ AResolve(w)
        \/ ASearchStart(w)
        \/ ASearchReturn(w)
        \/ ASearchTimeout(w)
        \/ ASearchFailed(w)
        \/ AReturn(w)

SpecAlbum == AInit /\ [][ANext]_vars

\* ---- C26: the in-memory album cache ----

\* the call of worker w is under way (between its cache test and its return)
AInCall(w) == a_pc[w] \notin {"idle", "done"}

\* C26: (1) the entry of a key changes only in the step in which a listing
\* search for that key returns successfully, and is then present; a timeout
\* or a failure leaves the cache as it was; an entry is never removed.
\* (2) a call that finds its key present returns at once, with no search.
\* (3) no call makes more than one listing search, and when every worker
\* has returned, the key of every call whose search succeeded is present.
C26_AlbumCache ==
    /\ [][ \A k \in AlbumKeys :
             /\ YOUTUBE_CACHE[k].present => YOUTUBE_CACHE'[k].present
             /\ YOUTUBE_CACHE'[k] # YOUTUBE_CACHE[k] =>
                  /\ YOUTUBE_CACHE'[k].present
                  /\ \E w \in AlbumWorkers :
                       /\ a_pc[w] = "searching"
                       /\ AlbumKey(a_artist[w]) = k
                       /\ a_ret'[w] = "ok" ]_vars
    /\ [][ \A w \in AlbumWorkers :
             (a_ret'[w] \in {"timeout", "failed"} /\ a_pc[w] = "searching")
                 => YOUTUBE_CACHE' = YOUTUBE_CACHE ]_vars
    /\ [][ \A w \in AlbumWorkers :
             (a_pc[w] = "idle" /\ a_pc'[w] # "idle"
              /\ YOUTUBE_CACHE[AlbumKey(a_artist'[w])].present)
                 => (a_pc'[w] = "done" /\ a_calls'[w] = 0) ]_vars
    /\ [](\A w \in AlbumWorkers :
             /\ a_calls[w] <= 1
             /\ a_ret[w] = "hit" => a_calls[w] = 0
             /\ (a_ret[w] = "ok" /\ \A v \in AlbumWorkers : ~ AInCall(v))
                   => YOUTUBE_CACHE[AlbumKey(a_artist[w])].present)

\* two workers raced on the cold key "a" (for the artists "A" and "a"): each
\* found it absent and made one listing search that succeeded, both have
\* returned and the entry is present
C26_Witness ==
    /\ \A w \in AlbumWorkers :
         /\ a_pc[w] = "done"
         /\ AlbumKey(a_artist[w]) = <<"a">>
         /\ a_calls[w] = 1
         /\ a_ret[w] = "ok"
    /\ a_artist[1] # a_artist[2]
    /\ YOUTUBE_CACHE[<<"a">>].present

\* ---------------------------------------------------------------------
\* The auxiliary list from the verifier (verify_channel_matches.py) to
\* the review tool (verify_false_negatives.py).  A file is given by its
\* name; its content is the youtube_channel column of its data rows.
\* ---------------------------------------------------------------------

\* verify_channel_matches.py, line 11
OUTPUT_FILE == "missing_channel_matches_v2.csv"

\* verify_false_negatives.py, line 10
CSV_PATH == "missing_channel_matches.csv"

FileNames == {OUTPUT_FILE, CSV_PATH}

NoFile == [exists |-> FALSE, rows |-> <<>>]

\* the files a run may find: none, or the list an earlier run left
OldFiles == {NoFile} \cup {[exists |-> TRUE, rows |-> rows] : rows \in CsvFiles}

\* open(OUTPUT_FILE, "w") and the header row, lines 138-140
open_for_writing(files, name) ==
    [files EXCEPT ![name] = [exists |-> TRUE, rows |-> <<>>]]

\* writer.writerow([artist, song, channel]), line 156
writerow(files, name, channel) ==
    [files EXCEPT ![name].rows = Append(@, channel)]

\* get_csv_index_map, lines 34-44: the rows of CSV_PATH, none if it is missing
get_csv_index_map(files) ==
    IF ~ files[CSV_PATH].exists THEN <<>> ELSE files[CSV_PATH].rows

HInit ==
    /\ PIdle
    /\ NIdle
    /\ GIdle
    /\ IIdle
    /\ RIdle
    /\ DIdle
    /\ AIdle
    /\ LIdle
    /\ h_pc = "start"
    /\ h_files \in [FileNames -> OldFiles]
    /\ h_exported = {}
    /\ h_index = [k \in Artists |-> 0]

\* verify_all_channels opens its list
HOpen ==
    /\ h_pc = "start"
    /\ h_files' = open_for_writing(h_files, OUTPUT_FILE)
    /\ h_pc' = "verifying"
    /\ UNCHANGED <<h_exported, h_index, HOthers>>

\* a record fails verification and is exported, lines 153-157
HExport ==
    /\ h_pc = "verifying"
    /\ \E k \in Artists :
        /\ HandleUrl(k) \notin h_exported
        /\ h_files' = writerow(h_files, OUTPUT_FILE, HandleUrl(k))
        /\ h_exported' = h_exported \cup {HandleUrl(k)}
    /\ UNCHANGED <<h_pc, h_index, HOthers>>

\* the run ends and the file is closed
HClose ==
    /\ h_pc = "verifying"
    /\ h_pc' = "verified"
    /\ UNCHANGED <<h_files, h_exported, h_index, HOthers>>

\* get_next_unverified gives every channel its priority index, lines 116-135
HReview ==
    /\ h_pc = "verified"
    /\ h_index' = [k \in Artists |-> csv_index(get_csv_index_map(h_files), HandleUrl(k))]
    /\ h_pc' = "reviewed"
    /\ UNCHANGED <<h_files, h_exported, HOthers>>

HNext == HOpen \/ HExport \/ HClose \/ HReview

SpecHandoff == HInit /\ [][HNext]_vars

\* ---- C27: the review tool reads the list the verifier wrote ----

\* C27: after a verification run, every channel the run exported as failing
\* has a priority index from the list in get_next_unverified: an index
\* smaller than the default 999999.
C27_ListHandedOver ==
    h_pc = "reviewed" =>
        \A k \in Artists : HandleUrl(k) \in h_exported => h_index[k] < NO_CSV_INDEX

\* ---------------------------------------------------------------------
\* The review loop of verify_false_negatives.py: the page is loaded, then
\* every click posts a decision to /verify.  The id of a row is its
\* position in the table.
\* ---------------------------------------------------------------------

NoRequest == [id |-> 0, verified |-> 0]

\* variant of verify_status: the request's value is stored as it is
verify_status_plain(status) == status

\* lines 155-159: "No" (0) is stored as -1
verify_status(status) == IF status = 0 THEN -1 ELSE status

\* line 163: UPDATE artists SET verified = ? WHERE id = ?
update_verified(table, status, artist_id) ==
    [i \in 1..Len(table) |->
        IF i = artist_id THEN [table[i] EXCEPT !.verified = status] ELSE table[i]]

\* the id of the record get_next_unverified returned (0: none)
ReturnedId(table, ret) ==
    IF ret = NoRow THEN 0 ELSE CHOOSE i \in 1..Len(table) : table[i].name = ret.name

LInit ==
    /\ PIdle
    /\ NIdle
    /\ GIdle
    /\ IIdle
    /\ RIdle
    /\ DIdle
    /\ AIdle
    /\ HIdle
    /\ l_pc = "start"
    /\ l_table \in ReviewTables
    /\ l_csv \in CsvFiles
    /\ l_req = NoRequest
    /\ l_next = NoRow
    /\ l_decided = {}

\* GET /, lines 173-175: the page shows the next pending record
LIndex ==
    /\ l_pc = "start"
    /\ l_next' = get_next_unverified(l_table, l_csv)
    /\ l_pc' = "review"
    /\ UNCHANGED <<l_table, l_csv, l_req, l_decided, LOthers>>

\* POST /verify with {id, verified}, lines 151-168
Verify(artist_id, value) ==
    /\ l_pc = "review"
    /\ l_req' = [id |-> artist_id, verified |-> value]
    /\ l_table' = update_verified(l_table, verify_status(value), artist_id)
    /\ l_next' = get_next_unverified(l_table', l_csv)
    /\ l_decided' = IF artist_id \in 1..Len(l_table)
                    THEN l_decided \cup {artist_id} ELSE l_decided
    /\ UNCHANGED <<l_pc, l_csv, LOthers>>

\* a decision, yes (1) or no (0), on any record id
LVerify == \E artist_id \in Artists, value \in {0, 1} : Verify(artist_id, value)

\* a decision on the record the page shows
LDecideReturned ==
    /\ l_next # NoRow
    /\ \E value \in {0, 1} : Verify(ReturnedId(l_table, l_next), value)

LNext == LIndex \/ LVerify

SpecReviewLoop == LInit /\ [][LNext]_vars

\* the page gets loaded, and as long as a record is shown the reviewer
\* goes on deciding on it
SpecReviewLoopFair ==
    SpecReviewLoop /\ WF_vars(LIndex) /\ WF_vars(LDecideReturned)

\* ---- C29: progress of the manual review ----

\* C29: a decision written for a record id stores 1 for yes and -1 for no;
\* a record that has a decision is not returned by get_next_unverified
\* again, whatever decisions follow; and with repeated decisions on the
\* returned record get_next_unverified eventually returns none, for good.
C29_ReviewProgress ==
    /\ [](l_req.id \in 1..Len(l_table) =>
            l_table[l_req.id].verified = (IF l_req.verified = 1 THEN 1 ELSE -1))
    /\ [](\A i \in l_decided :
            /\ l_table[i].verified \in {1, -1}
            /\ ReturnedId(l_table, l_next) # i)
    /\ <>[](l_pc = "review" /\ l_next = NoRow)

\* two records were pending; one is rejected, the other confirmed, and
\* none is left to return
C29_Witness ==
    /\ l_decided = {1, 2}
    /\ l_table[1].verified = -1
    /\ l_table[2].verified = 1
    /\ l_table[1].youtube_channel # <<>> /\ l_table[1].song_name # <<>>
    /\ l_table[2].youtube_channel # <<>> /\ l_table[2].song_name # <<>>
    /\ l_next = NoRow

====
